---- MODULE Spec2Model ----
(***************************************************************************)
(* A model of the Au tooling: the buffered byte source (FileByteSource),   *)
(* the grep value handler (GrepHandler), the grep / bisect drivers and the *)
(* stats driver.                                                           *)
(*                                                                         *)
(* Sizes are scaled: the byte source works on files of a few bytes with a  *)
(* history window and a buffer increment of a few bytes; the drivers       *)
(* measure offsets in KiB, so that SCAN_THRESHOLD, PREFIX_AMOUNT and the   *)
(* suffix budget keep the values of the source.                            *)
(***************************************************************************)
EXTENDS Integers, Sequences, FiniteSets, TLC

\* ------------------------------------------------------------------ bounds
MaxFileLen == 4      \* longest underlying byte stream
MaxNeedle == 2       \* longest needle given to scanTo

\* ------------------------------------------------------ program constants
MIN_HIST_SIZE == 1       \* FileByteSource::MIN_HIST_SIZE (1 KiB in the source), scaled
INIT_BUFFER_SIZE == 2    \* FileByteSource::INIT_BUFFER_SIZE (bufferSizeInK * 1024), scaled

Bytes == {"a", "b"}
NoPin == -1              \* pinPos_ == std::nullopt
EOF == "EOF"             \* Byte::Eof()

Min(a, b) == IF a < b THEN a ELSE b
Max(a, b) == IF a > b THEN a ELSE b

SeqsUpTo(S, n) == UNION {[1..k -> S] : k \in 0..n}

\* How many bytes the operating system hands back on the 1st, 2nd, ... call
\* of ::read within one operation ("any non-zero number of bytes"); the plan
\* is repeated when an operation reads more often.
ChunkSizes == 1..INIT_BUFFER_SIZE
ChunkPlans == [1..2 -> ChunkSizes]
\* The plans of an operation that reads at most once.
OneChunk == {<<w>> : w \in ChunkSizes}

VARIABLES
  \* ---- FileByteSource / FileByteSourceImpl
  file,      \* the bytes of the underlying file
  fpos,      \* the file descriptor's offset (lseek / ::read)
  buf,       \* buf_[0 .. limit_): the bytes held by the working buffer
  bufSize,   \* bufSize_
  cur,       \* cur_ - buf_
  pos,       \* pos_
  pinPos,    \* pinPos_
  thrown,    \* whether a call threw (the source is not used afterwards)
  \* ---- history, for the properties
  pinTrack,  \* P while setPin(P), P >= pos(), was followed by next/peek/readFunc only
  zeroReq    \* whether some call asked doRead for zero bytes

srcVars == <<file, fpos, buf, bufSize, cur, pos, pinPos, thrown>>
obsVars == <<pinTrack, zeroReq>>

VARIABLES
  \* ---- GrepHandler
  pattern,     \* pattern_: the Pattern the handler was constructed with
  context_,    \* the stack of ContextMarker
  matched_,
  less_,
  str_,        \* the characters collected for the current string
  \* ---- ValueParser: where it is in the value it delivers
  phase,       \* "idle", "value" (inside a record), "string" or "done"
  tree,        \* per open container: kind, elements delivered, last key, ...
  pending,     \* the string being delivered in fragments, and how much of it was
  nev,         \* elements delivered in this record
  \* ---- what the record delivered so far, for the properties
  seenNear,    \* a matching scalar whose nearest enclosing object key is the key pattern
  seenSub,     \* a matching scalar below the value of a key equal to the key pattern
  seenAny,     \* a matching scalar that is not a key
  ordN,        \* the int, uint and time scalars delivered under a matching key: 0, 1,
               \* 2 for more
  ordVal       \* the only one of them, while ordN = 1

hVars == <<pattern, context_, matched_, less_, str_>>
pVars == <<phase, tree, pending, nev, seenNear, seenSub, seenAny, ordN, ordVal>>

VARIABLES
  \* ---- the file a driver (grep, bisect, stats) reads, record by record
  recs,        \* its records: size (KiB), the type and value of the key they carry
  truncated,   \* whether the last record is cut short
  \* ---- doGrep / doBisect / reallyDoGrep
  opts,        \* the Pattern's options: numMatches, scanSuffixAmount, contexts, bisect, count
  pc,          \* "start", "bisect" (doBisect's loop), "grep" (reallyDoGrep's loop), "stats", "done"
  bstart,      \* doBisect: start
  bend,        \* doBisect: end
  spos,        \* source.pos()
  posBuffer,
  force,
  total,
  matchPos,
  out,         \* the records handed to the output handler, in order
  printed,     \* the numbers printed on standard output (count mode)
  diag,        \* where a parse_error was reported: "none", "stderr", "stdout"
  status,      \* how the driver ended: "running", "returned" (grep: void), 0 (stats)
  \* ---- SmallIntRecordHandler (stats)
  counters,    \* numRecords, numValues, and the values counted by type
  \* ---- history, for the properties
  lastMatch,   \* the last record counted as a match (0: none yet)
  firstRec,    \* the record the linear scan started at
  lastEmit,    \* what the last iteration of reallyDoGrep handed to the output handler
  parsed,      \* the records reallyDoGrep gave to the GrepHandler, in order, and
               \* whether after-context was pending (force # 0) when each was read
  expect       \* what the claim expects of that iteration

fVars == <<recs, truncated>>
gVars == <<opts, pc, bstart, bend, spos, posBuffer, force, total, matchPos, out, printed,
           diag, status>>
sVars == <<counters>>
xVars == <<lastMatch, firstRec, lastEmit, parsed, expect>>
dVars == <<fVars, gVars, sVars, xVars>>

VARIABLES
  \* ---- json2au and the decoding of what it wrote to JSON
  jargs,       \* the positional arguments of json2au
  jpc,         \* "json2au" (called), "String" (the SAX handler is about to get the
               \* string), "au" (the value is encoded), "json" (decoded and printed), "exit"
  inFName,
  outFName,
  maxEntries,  \* an absent limit is the empty set
  jstatus,     \* what json2au returned: "running", "0", "-1"
  jin,         \* the string value of the JSON input
  stored,      \* the value the AuWriter got: a time or a string
  jout         \* the JSON text printed for it

VARIABLES
  \* ---- json2au: the encode loop and its JsonSaxHandler
  input,             \* the JSON documents the reader has not begun yet (their number)
  res,               \* res: whether the last ParseResult is not an error
  entriesProcessed,
  intern_,           \* std::optional<bool>: absent is the empty set
  nesting,           \* the reader's open containers: kind and number of elements
  prevEvent,         \* the SAX event delivered last in this document
  lastWrite,         \* the last writer_.value(string, intern_) of String
  encoded            \* the documents handed to the encoder so far

eVars == <<input, res, entriesProcessed, intern_, nesting, prevEvent, lastWrite, encoded>>
jVars == <<jargs, jpc, inFName, outFName, maxEntries, jstatus, jin, stored, jout, eVars>>

VARIABLES
  \* ---- a FileByteSource whose calls are followed step by step
  waitForData, \* waitForData_
  call,        \* the call in progress: none, a next/peek asleep in read(), a scanTo
               \* between two iterations of its loops
  ret,         \* what the last next, peek or scanTo that ended returned, "threw" if
               \* it threw, "none" after another call
  slept,       \* whether the last call that ended slept in read()
  run          \* the bytes next and readFunc consumed since the last seek

tVars == <<waitForData, call, ret, slept, run>>

\* ----------------------------------------------------------- FileByteSource
\* The object as a record, so that an operation is a function of the object.
\* Besides the object's fields the record carries what the call did: .ret its
\* result, .frags the fragments handed to readFunc's callback, .thrown whether
\* it threw, .io the number of doSeek/doRead calls, .nread those of doRead,
\* .zeroReq whether a doRead was asked for zero bytes.
Src == [fpos |-> fpos, buf |-> buf, bufSize |-> bufSize, cur |-> cur, pos |-> pos,
        pinPos |-> pinPos, io |-> 0, nread |-> 0, ret |-> "void", frags |-> <<>>,
        thrown |-> FALSE, ok |-> TRUE, zeroReq |-> FALSE]

buffFree(s) == s.bufSize - Len(s.buf)
buffAvail(s) == Len(s.buf) - s.cur

\* FileByteSourceImpl::doRead: ::read(fd, limit_, len) returning `want` bytes,
\* or fewer when the buffer or the file has fewer.
doRead(s, want) ==
  LET avail == IF Len(file) > s.fpos THEN Len(file) - s.fpos ELSE 0
      n == Min(Min(want, buffFree(s)), avail)
  IN [s EXCEPT !.buf = @ \o SubSeq(file, s.fpos + 1, s.fpos + n),
               !.fpos = @ + n, !.io = @ + 1, !.nread = @ + 1, !.ok = (n > 0),
               !.zeroReq = @ \/ buffFree(s) = 0]

\* FileByteSourceImpl::doSeek: lseek(fd, abspos, SEEK_SET)
doSeek(s, abspos) == [s EXCEPT !.fpos = abspos, !.io = @ + 1]

\* A read() that keeps the pinned history only.
HistSzPinned(s) ==
  IF s.pinPos # NoPin /\ s.pinPos < s.pos THEN s.pos - s.pinPos ELSE 0

\* The history read() keeps before cur_.
HistSz(s) ==
  IF s.pinPos # NoPin /\ s.pinPos < s.pos
    THEN Max(MIN_HIST_SIZE, s.pos - s.pinPos)
    ELSE MIN_HIST_SIZE

\* A read() that never grows the buffer.
readWithoutGrow(s, ch) ==
  LET histSz == HistSz(s)
      s1 == IF s.cur > histSz
              THEN [s EXCEPT !.buf = SubSeq(s.buf, s.cur - histSz + 1, Len(s.buf)),
                             !.cur = histSz]
              ELSE s
  IN doRead(s1, ch[(s.nread % Len(ch)) + 1])

\* read(): compact, grow, then one underlying read (waitForData_ = false).
\* .ok is read()'s result.
read(s, ch) ==
  LET histSz == HistSz(s)
      s1 == IF s.cur > histSz
              THEN [s EXCEPT !.buf = SubSeq(s.buf, s.cur - histSz + 1, Len(s.buf)),
                             !.cur = histSz]
              ELSE s
      s2 == IF buffFree(s1) = 0
              THEN [s1 EXCEPT !.bufSize = @ + INIT_BUFFER_SIZE]
              ELSE s1
  IN doRead(s2, ch[(s.nread % Len(ch)) + 1])

\* while (cur_ == limit_) if (!read()) return <eof>;   .ok = FALSE on eof
RECURSIVE fill(_, _)
fill(s, ch) ==
  IF s.cur = Len(s.buf)
    THEN LET r == read(s, ch) IN IF r.ok THEN fill(r, ch) ELSE r
    ELSE [s EXCEPT !.ok = TRUE]

next(s, ch) ==
  LET r == fill(s, ch)
  IN IF ~r.ok THEN [r EXCEPT !.ret = EOF]
     ELSE [r EXCEPT !.pos = @ + 1, !.cur = @ + 1, !.ret = r.buf[r.cur + 1]]

peek(s, ch) ==
  LET r == fill(s, ch)
  IN IF ~r.ok THEN [r EXCEPT !.ret = EOF]
     ELSE [r EXCEPT !.ret = r.buf[r.cur + 1]]

\* readFunc(len, func): .frags is the sequence of fragments handed to func;
\* .thrown is AU_THROW("reached eof while trying to read")
RECURSIVE readFuncLoop(_, _, _, _)
readFuncLoop(s, len, ch, acc) ==
  IF len = 0 THEN [s EXCEPT !.frags = acc]
  ELSE LET r == fill(s, ch)
       IN IF ~r.ok THEN [r EXCEPT !.frags = acc, !.thrown = TRUE]
          ELSE LET first == Min(len, buffAvail(r))
               IN readFuncLoop([r EXCEPT !.pos = @ + first, !.cur = @ + first],
                               len - first, ch,
                               Append(acc, SubSeq(r.buf, r.cur + 1, r.cur + first)))

readFunc(s, len, ch) == readFuncLoop(s, len, ch, <<>>)

setPin(s, abspos) == [s EXCEPT !.pinPos = abspos]

clearPin(s) == [s EXCEPT !.pinPos = NoPin]

\* seek(abspos): .thrown is THROW_RT("failed to read from new location")
seek(s, abspos, ch) ==
  IF abspos < s.pos /\ s.pos - abspos <= s.cur
    THEN LET relseek == s.pos - abspos
         IN [s EXCEPT !.cur = @ - relseek, !.pos = @ - relseek]
    ELSE LET s1 == doSeek(s, abspos)
             s2 == clearPin([s1 EXCEPT !.buf = <<>>, !.cur = 0, !.pos = abspos])
             r == read(s2, ch)
         IN IF r.ok THEN r ELSE [r EXCEPT !.thrown = TRUE]

skip(s, len, ch) == seek(s, s.pos + len, ch)

\* memmem(cur_, buffAvail(), needle): the least offset from cur_ at which the
\* needle lies in the buffered bytes, or -1
memmem(s, needle) ==
  LET hits == {o \in 0..(buffAvail(s) - Len(needle)) :
                 SubSeq(s.buf, s.cur + o + 1, s.cur + o + Len(needle)) = needle}
  IN IF hits = {} THEN -1 ELSE CHOOSE o \in hits : \A p \in hits : o <= p

\* A scanTo that skips all the buffered bytes.
ScanSkipAll(s, needle) == buffAvail(s)

\* How far scanTo skips when the buffered bytes do not hold the needle.
ScanSkipAmount(s, needle) == buffAvail(s) - (Len(needle) - 1)

\* while (buffAvail() < needle.length()) if (!read()) return false;
RECURSIVE scanFill(_, _, _)
scanFill(s, n, ch) ==
  IF buffAvail(s) < n
    THEN LET r == read(s, ch) IN IF r.ok THEN scanFill(r, n, ch) ELSE r
    ELSE [s EXCEPT !.ok = TRUE]

RECURSIVE scanTo(_, _, _)
scanTo(s, needle, ch) ==
  LET r == scanFill(s, Len(needle), ch)
  IN IF ~r.ok THEN [r EXCEPT !.ret = "false"]
     ELSE LET found == memmem(r, needle)
          IN IF found >= 0
               THEN [r EXCEPT !.pos = @ + found, !.cur = @ + found, !.ret = "true"]
               ELSE LET k == skip(r, ScanSkipAmount(r, needle), ch)
                    IN IF k.thrown THEN k ELSE scanTo(k, needle, ch)

\* ------------------------------------------------------------ the actions
\* The object after a call.
Assign(r) ==
  /\ fpos' = r.fpos
  /\ buf' = r.buf
  /\ bufSize' = r.bufSize
  /\ cur' = r.cur
  /\ pos' = r.pos
  /\ pinPos' = r.pinPos
  /\ thrown' = r.thrown
  /\ zeroReq' = (zeroReq \/ r.zeroReq)
  /\ file' = file

Apply(r) ==
  /\ Assign(r)
  /\ UNCHANGED <<hVars, pVars, dVars, jVars, tVars>>

\* A call that threw ends the use of the source.
Usable == ~thrown

ReadLens == 1..(INIT_BUFFER_SIZE + 1)
SkipLens == 0..INIT_BUFFER_SIZE
Needles == SeqsUpTo(Bytes, MaxNeedle) \ {<<>>}
Positions == 0..Len(file)

DoNext ==
  /\ Usable
  /\ \E ch \in OneChunk : Apply(next(Src, ch))
  /\ pinTrack' = pinTrack

DoPeek ==
  /\ Usable
  /\ \E ch \in OneChunk : Apply(peek(Src, ch))
  /\ pinTrack' = pinTrack

DoReadFunc ==
  /\ Usable
  /\ \E len \in ReadLens, ch \in ChunkPlans : Apply(readFunc(Src, len, ch))
  /\ pinTrack' = pinTrack

DoSkip ==
  /\ Usable
  /\ \E len \in SkipLens, ch \in OneChunk : Apply(skip(Src, len, ch))
  /\ pinTrack' = NoPin

DoSeek ==
  /\ Usable
  /\ \E abspos \in Positions, ch \in OneChunk : Apply(seek(Src, abspos, ch))
  /\ pinTrack' = NoPin

\* setPin asserts abspos >= pos_ - (cur_ - buf_)
DoSetPin ==
  /\ Usable
  /\ \E abspos \in Positions :
       /\ abspos >= pos - cur
       /\ Apply(setPin(Src, abspos))
       /\ pinTrack' = IF abspos >= pos THEN abspos ELSE NoPin

DoClearPin ==
  /\ Usable
  /\ Apply(clearPin(Src))
  /\ pinTrack' = NoPin

DoScanTo ==
  /\ Usable
  /\ \E needle \in Needles, ch \in ChunkPlans : Apply(scanTo(Src, needle, ch))
  /\ pinTrack' = NoPin

vars == <<srcVars, obsVars, hVars, pVars, dVars, jVars, tVars>>

NoValue == [kind |-> "none"]

\* json2au while it is not called
NoEvent == [ev |-> "none", s |-> <<>>]

NoWrite == [s |-> <<>>, intern |-> {}, after |-> NoEvent]

EncodeIdle ==
  /\ input = 0
  /\ res = TRUE
  /\ entriesProcessed = 0
  /\ intern_ = {}
  /\ nesting = <<>>
  /\ prevEvent = NoEvent
  /\ lastWrite = NoWrite
  /\ encoded = 0

JsonIdle ==
  /\ EncodeIdle
  /\ jargs = <<>>
  /\ jpc = "idle"
  /\ inFName = "-"
  /\ outFName = "-"
  /\ maxEntries = {}
  /\ jstatus = "running"
  /\ jin = <<>>
  /\ stored = NoValue
  /\ jout = <<>>

NoCall == [op |-> "none"]

\* The step-by-step source while it is not used.
StreamIdle ==
  /\ waitForData = FALSE
  /\ call = NoCall
  /\ ret = "none"
  /\ slept = FALSE
  /\ run = 0

NoOpts ==
  [numMatches |-> {}, scanSuffixAmount |-> {}, beforeContext |-> 0, afterContext |-> 0,
   bisect |-> FALSE, count |-> FALSE]

\* SmallIntValueHandler::intSizes has one counter per length of an integer
IntSizesLen == 12

NoIntSizes == [k \in 1..IntSizesLen |-> 0]

NoCounters ==
  [numRecords |-> 0, numValues |-> 0, intSizes |-> NoIntSizes, doubles |-> 0]

\* The drivers while none runs.
DriverIdle ==
  /\ recs = <<>>
  /\ truncated = FALSE
  /\ opts = NoOpts
  /\ pc = "idle"
  /\ bstart = 0
  /\ bend = 0
  /\ spos = 0
  /\ posBuffer = <<>>
  /\ force = 0
  /\ total = 0
  /\ matchPos = 0
  /\ out = <<>>
  /\ printed = <<>>
  /\ diag = "none"
  /\ status = "running"
  /\ counters = NoCounters
  /\ lastMatch = 0
  /\ firstRec = 0
  /\ lastEmit = <<>>
  /\ parsed = <<>>
  /\ expect = <<>>

NoString == [s |-> <<>>, k |-> 0]

NoOrd == [type |-> "none", val |-> 0]

\* The handler and the parser while no record is parsed.
HandlerIdle ==
  /\ context_ = <<>>
  /\ matched_ = FALSE
  /\ less_ = FALSE
  /\ str_ = <<>>
  /\ phase = "idle"
  /\ tree = <<>>
  /\ pending = NoString
  /\ nev = 0
  /\ seenNear = FALSE
  /\ seenSub = FALSE
  /\ seenAny = FALSE
  /\ ordN = 0
  /\ ordVal = NoOrd

\* The source while it is not used.
SourceIdle ==
  /\ file = <<>>
  /\ fpos = 0
  /\ buf = <<>>
  /\ bufSize = INIT_BUFFER_SIZE
  /\ cur = 0
  /\ pos = 0
  /\ pinPos = NoPin
  /\ thrown = FALSE
  /\ zeroReq = FALSE
  /\ pinTrack = NoPin

\* The two byte values are interchangeable (every needle is tried), so the
\* first byte of the file is fixed.
Files == {f \in SeqsUpTo(Bytes, MaxFileLen) : f # <<>> => f[1] = "a"}

Init ==
  /\ file \in Files
  /\ fpos = 0
  /\ buf = <<>>
  /\ bufSize = INIT_BUFFER_SIZE
  /\ cur = 0
  /\ pos = 0
  /\ pinPos = NoPin
  /\ thrown = FALSE
  /\ zeroReq = FALSE
  /\ pinTrack = NoPin
  /\ pattern = <<>>
  /\ HandlerIdle
  /\ DriverIdle
  /\ JsonIdle
  /\ StreamIdle

Next ==
  \/ DoNext
  \/ DoPeek
  \/ DoReadFunc
  \/ DoSkip
  \/ DoSeek
  \/ DoSetPin
  \/ DoClearPin
  \/ DoScanTo

Spec == Init /\ [][Next]_vars

\* ------------------------------------------------- byte source: properties
\* The properties of an operation are stated of every call that can be made
\* in a reachable state: the record the operation returns is the object after
\* the call together with what the call did.

RECURSIVE Concat(_)
Concat(ss) == IF ss = <<>> THEN <<>> ELSE Head(ss) \o Concat(Tail(ss))

\* The offsets >= p at which the needle lies in the underlying stream.
Occurrences(needle, p) ==
  {o \in p..(Len(file) - Len(needle)) : SubSeq(file, o + 1, o + Len(needle)) = needle}

SetMin(S) == CHOOSE x \in S : \A y \in S : x <= y

\* C1 (as claimed): once setPin(P) was called with P >= pos() and only next,
\* peek and readFunc were called since (possibly none), seek(P) is served from
\* the buffer: it calls neither doSeek nor doRead and does not throw.
C1_PinPreservation ==
  (Usable /\ pinTrack # NoPin) =>
    \A ch \in OneChunk :
      LET r == seek(Src, pinTrack, ch)
      IN r.io = 0 /\ ~r.thrown /\ r.pos = pinTrack

\* C2 (as claimed): seek(abspos) with pos - (cur - buf) <= abspos <= pos moves
\* only cur and pos (buffer, limit, pin and the underlying stream untouched);
\* any other abspos reseeks the stream, drops the pin and refills from abspos.
C2_BackSeek ==
  Usable =>
    \A abspos \in Positions, ch \in OneChunk :
      LET r == seek(Src, abspos, ch)
      IN IF pos - cur <= abspos /\ abspos <= pos
           THEN /\ r.io = 0 /\ ~r.thrown
                /\ r.buf = buf /\ r.bufSize = bufSize /\ r.pinPos = pinPos
                /\ r.fpos = fpos
                /\ r.pos = abspos /\ r.cur = cur - (pos - abspos)
           ELSE /\ r.io > 0
                /\ r.pinPos = NoPin
                /\ r.pos = abspos /\ r.cur = 0
                /\ r.buf = SubSeq(file, abspos + 1, abspos + Len(r.buf))
                /\ (~r.thrown => Len(r.buf) > 0)

\* C3: scanTo(needle) called at position p returns true exactly when the
\* needle occurs in the underlying stream at an offset >= p; then pos() is the
\* offset of the first such occurrence and the next len(needle) bytes read
\* (whatever the chunks of the underlying reads) are the needle.
C3_ScanToFindsFirst ==
  Usable =>
    \A needle \in Needles, ch \in ChunkPlans :
      LET r == scanTo(Src, needle, ch)
          occ == Occurrences(needle, pos)
      IN /\ (r.ret = "true") <=> (occ # {})
         /\ (r.ret = "true") =>
              /\ ~r.thrown
              /\ r.pos = SetMin(occ)
              /\ \A ch2 \in ChunkPlans :
                   LET q == readFunc(r, Len(needle), ch2)
                   IN ~q.thrown /\ Concat(q.frags) = needle

\* C3's case: called after the cursor has moved, scanTo finds an occurrence
\* that the bytes buffered by its first search did not hold (it skipped,
\* reseeked and read again), beyond the position it was called at.
C3_Witness ==
  /\ Usable
  /\ pos > 0
  /\ \E needle \in Needles, ch \in ChunkPlans :
       LET r == scanTo(Src, needle, ch)
       IN Len(needle) > 1 /\ r.ret = "true" /\ r.io >= 3 /\ r.pos > pos

\* C4 (as claimed): for a non-empty needle that does not occur at or after
\* pos(), scanTo returns false and does not throw.
C4_ScanToNeverThrows ==
  Usable =>
    \A needle \in Needles, ch \in ChunkPlans :
      Occurrences(needle, pos) = {} =>
        LET r == scanTo(Src, needle, ch)
        IN ~r.thrown /\ r.ret = "false"


\* ------------------------------------------------------------- GrepHandler
MaxDepth == 3        \* deepest nesting of arrays and objects in a record
MaxElems == 6        \* most elements (scalars, strings, containers) in a record

\* Strings are sequences of characters.
StrK == <<"k">>
StrJK == <<"j", "k">>
Strings == {StrK, StrJK}
\* The decoder's dictionary: onDictRef(i) resolves to Dictionary[i + 1].
Dictionary == <<StrK, StrJK>>
Numbers == 0..2

\* An absent std::optional is the empty set, a present one a singleton.
NoPattern ==
  [keyPattern |-> {}, intPattern |-> {}, uintPattern |-> {}, doublePattern |-> {},
   strPattern |-> {}, timestampPattern |-> {}]

\* The value patterns: exactly one of the five kinds.
ValuePatterns ==
  { [NoPattern EXCEPT !.intPattern = {1}],
    [NoPattern EXCEPT !.uintPattern = {1}],
    [NoPattern EXCEPT !.doublePattern = {1}],
    [NoPattern EXCEPT !.strPattern = {[pattern |-> StrK, fullMatch |-> TRUE]}],
    [NoPattern EXCEPT !.strPattern = {[pattern |-> StrK, fullMatch |-> FALSE]}],
    [NoPattern EXCEPT !.timestampPattern = {<<1, 2>>}] }

Patterns == {[vp EXCEPT !.keyPattern = kp] : vp \in ValuePatterns, kp \in {{}, {StrK}}}

requiresKeyMatch(p) == p.keyPattern # {}

\* A key test that accepts every key.
matchesAnyKey(p, key) == TRUE

matchesKey(p, key) == IF p.keyPattern = {} THEN TRUE ELSE key \in p.keyPattern

\* sv.find(pat) != npos
Contains(sv, pat) ==
  \E i \in 0..(Len(sv) - Len(pat)) : SubSeq(sv, i + 1, i + Len(pat)) = pat

\* Pattern::matchesValue, one overload per type of value
matchesValue(p, type, val) ==
  CASE type = "time" ->
         \E tp \in p.timestampPattern : val >= tp[1] /\ val < tp[2]
    [] type = "uint" -> val \in p.uintPattern
    [] type = "int" -> val \in p.intPattern
    [] type = "double" -> val \in p.doublePattern
    [] type = "string" ->
         \E sp \in p.strPattern :
           IF sp.fullMatch THEN sp.pattern = val ELSE Contains(val, sp.pattern)
    [] OTHER -> FALSE

ContextMarker(context, counter, checkVal) ==
  [context |-> context, counter |-> counter, checkVal |-> checkVal]

\* The handler as a record.
Handler == [context_ |-> context_, matched_ |-> matched_, less_ |-> less_, str_ |-> str_]

back(h) == h.context_[Len(h.context_)]

isKey(h) == back(h).context = "OBJECT" /\ back(h).counter % 2 = 0

incrCounter(h) == [h EXCEPT !.context_[Len(h.context_)].counter = @ + 1]

\* onValue, up to the call of the parser
onValue(p) ==
  [context_ |-> <<ContextMarker("BARE", 0, ~requiresKeyMatch(p))>>,
   matched_ |-> FALSE, less_ |-> FALSE, str_ |-> str_]

onNull(h) == incrCounter(h)

onBool(h) == incrCounter(h)

\* A low end one above the query's: a value equal to it would precede.
QueryLowOrEqual(p, type) ==
  CASE type = "int" -> {low + 1 : low \in p.intPattern}
    [] type = "uint" -> {low + 1 : low \in p.uintPattern}
    [] type = "time" -> {tp[1] + 1 : tp \in p.timestampPattern}
    [] OTHER -> {}

\* the low end of the query, by type of value (onInt / onUint / onTime)
QueryLow(p, type) ==
  CASE type = "int" -> p.intPattern
    [] type = "uint" -> p.uintPattern
    [] type = "time" -> {tp[1] : tp \in p.timestampPattern}
    [] OTHER -> {}

\* onInt, onUint, onTime
onNumber(h, p, type, value) ==
  LET h1 == IF back(h).checkVal /\ matchesValue(p, type, value)
              THEN [h EXCEPT !.matched_ = TRUE] ELSE h
      h2 == IF back(h).checkVal /\ \E low \in QueryLow(p, type) : value < low
              THEN [h1 EXCEPT !.less_ = TRUE] ELSE h1
  IN incrCounter(h2)

onDouble(h, p, value) ==
  incrCounter(IF back(h).checkVal /\ matchesValue(p, "double", value)
                THEN [h EXCEPT !.matched_ = TRUE] ELSE h)

onObjectStart(h) ==
  [h EXCEPT !.context_ = Append(@, ContextMarker("OBJECT", 0, FALSE))]

\* A container end that does not count the container as an element.
onContainerEndUncounted(h) == [h EXCEPT !.context_ = SubSeq(@, 1, Len(@) - 1)]

\* onObjectEnd, onArrayEnd
onContainerEnd(h) ==
  incrCounter([h EXCEPT !.context_ = SubSeq(@, 1, Len(@) - 1)])

\* An array that does not take over the checkVal of what encloses it.
ArrayCheckValNone(h) == FALSE

\* The checkVal a nested array starts with.
ArrayCheckVal(h) == back(h).checkVal

onArrayStart(h) ==
  [h EXCEPT !.context_ = Append(@, ContextMarker("ARRAY", 0, ArrayCheckVal(h)))]

checkString(h, p, sv) ==
  IF isKey(h)
    THEN [h EXCEPT !.context_[Len(h.context_)].checkVal = matchesKey(p, sv)]
    ELSE IF back(h).checkVal /\ matchesValue(p, "string", sv)
           THEN [h EXCEPT !.matched_ = TRUE] ELSE h

onDictRef(h, p, dictIdx) == incrCounter(checkString(h, p, Dictionary[dictIdx + 1]))

\* Whether the handler collects the current string.
Collects(h, p) == p.strPattern # {} \/ (requiresKeyMatch(p) /\ isKey(h))

onStringStart(h, p) == IF Collects(h, p) THEN [h EXCEPT !.str_ = <<>>] ELSE h

onStringFragment(h, p, frag) == IF Collects(h, p) THEN [h EXCEPT !.str_ = @ \o frag] ELSE h

onStringEnd(h, p) == incrCounter(checkString(h, p, h.str_))

\* ---- ValueParser: the callbacks of one well-formed value, in order
top == tree[Len(tree)]

\* The next element is an object key.
AtKey == top.kind = "OBJECT" /\ top.n % 2 = 0

\* A value (not a key) may start here.
CanStartValue ==
  /\ phase = "value"
  /\ ~AtKey
  /\ nev < MaxElems
  /\ top.kind = "BARE" => top.n = 0

\* The key the element delivered next belongs to: the last key of the
\* enclosing object, or what the enclosing array itself belongs to.
NearestKey == IF top.kind = "OBJECT" THEN top.lastKey ELSE top.near

\* The element delivered next lies below the value of a key equal to the key
\* pattern.
InKeySubtree ==
  top.sub \/ (top.kind = "OBJECT" /\ top.lastKey # {} /\ top.lastKey = pattern.keyPattern)

SetHandler(h) ==
  /\ context_' = h.context_
  /\ matched_' = h.matched_
  /\ less_' = h.less_
  /\ str_' = h.str_
  /\ pattern' = pattern
  /\ UNCHANGED <<srcVars, obsVars, dVars, jVars, tVars>>

\* An element of the enclosing container is complete.
Delivered(tr) == [tr EXCEPT ![Len(tr)].n = @ + 1]

Finish(tr) ==
  /\ tree' = tr
  /\ phase' = IF Len(tr) = 1 /\ tr[1].n = 1 THEN "done" ELSE "value"

\* The scalar delivered next is an int, a uint or a time under a matching key:
\* its nearest enclosing object key is the key pattern, or there is no key
\* pattern and every key matches.
OrderingValue(type) ==
  /\ type \in {"int", "uint", "time"}
  /\ pattern.keyPattern = {} \/ (NearestKey # {} /\ NearestKey = pattern.keyPattern)

\* A scalar that is not a key was delivered.
SawScalar(type, val) ==
  LET m == matchesValue(pattern, type, val)
  IN /\ seenAny' = (seenAny \/ m)
     /\ IF OrderingValue(type)
          THEN /\ ordN' = Min(ordN + 1, 2)
               /\ ordVal' = (IF ordN = 0 THEN [type |-> type, val |-> val] ELSE NoOrd)
          ELSE UNCHANGED <<ordN, ordVal>>
     /\ seenNear' = (seenNear \/ (m /\ NearestKey # {} /\ NearestKey = pattern.keyPattern))
     /\ seenSub' = (seenSub \/ (m /\ InKeySubtree))
     /\ nev' = nev + 1
     /\ pending' = NoString
     /\ Finish(Delivered(tree))

\* A key was delivered.
SawKey(key) ==
  /\ UNCHANGED <<seenAny, seenNear, seenSub, ordN, ordVal>>
  /\ pending' = NoString
  /\ nev' = nev + 1
  /\ Finish([tree EXCEPT ![Len(tree)].n = @ + 1, ![Len(tree)].lastKey = {key}])

\* GrepHandler::onValue: a new record
HOnValue ==
  /\ phase \in {"idle", "done"}
  /\ SetHandler(onValue(pattern))
  /\ phase' = "value"
  /\ tree' = <<[kind |-> "BARE", n |-> 0, lastKey |-> {}, near |-> {}, sub |-> FALSE]>>
  /\ pending' = NoString
  /\ nev' = 0
  /\ seenNear' = FALSE
  /\ seenSub' = FALSE
  /\ seenAny' = FALSE
  /\ ordN' = 0
  /\ ordVal' = NoOrd

HOnNull ==
  /\ CanStartValue
  /\ SetHandler(onNull(Handler))
  /\ SawScalar("null", 0)

HOnBool ==
  /\ CanStartValue
  /\ SetHandler(onBool(Handler))
  /\ SawScalar("bool", 0)

HOnInt ==
  /\ CanStartValue
  /\ \E v \in Numbers :
       SetHandler(onNumber(Handler, pattern, "int", v)) /\ SawScalar("int", v)

HOnUint ==
  /\ CanStartValue
  /\ \E v \in Numbers :
       SetHandler(onNumber(Handler, pattern, "uint", v)) /\ SawScalar("uint", v)

HOnTime ==
  /\ CanStartValue
  /\ \E v \in Numbers :
       SetHandler(onNumber(Handler, pattern, "time", v)) /\ SawScalar("time", v)

HOnDouble ==
  /\ CanStartValue
  /\ \E v \in Numbers :
       SetHandler(onDouble(Handler, pattern, v)) /\ SawScalar("double", v)

\* a dictionary reference, as a key or as a value
HOnDictRef ==
  /\ phase = "value"
  /\ nev < MaxElems
  /\ top.kind = "BARE" => top.n = 0
  /\ \E i \in 0..(Len(Dictionary) - 1) :
       /\ SetHandler(onDictRef(Handler, pattern, i))
       /\ IF AtKey THEN SawKey(Dictionary[i + 1]) ELSE SawScalar("string", Dictionary[i + 1])

Open(kind) ==
  /\ CanStartValue
  /\ Len(tree) <= MaxDepth
  /\ tree' = Append(tree, [kind |-> kind, n |-> 0, lastKey |-> {},
                           near |-> NearestKey, sub |-> InKeySubtree])
  /\ nev' = nev + 1
  /\ UNCHANGED <<phase, pending, seenNear, seenSub, seenAny, ordN, ordVal>>

Close(kind) ==
  /\ phase = "value"
  /\ top.kind = kind
  /\ SetHandler(onContainerEnd(Handler))
  /\ Finish(Delivered(SubSeq(tree, 1, Len(tree) - 1)))
  /\ UNCHANGED <<pending, nev, seenNear, seenSub, seenAny, ordN, ordVal>>

HOnObjectStart ==
  /\ Open("OBJECT")
  /\ SetHandler(onObjectStart(Handler))

\* an object ends after a value, not after a key
HOnObjectEnd ==
  /\ phase = "value"
  /\ AtKey
  /\ Close("OBJECT")

HOnArrayStart ==
  /\ Open("ARRAY")
  /\ SetHandler(onArrayStart(Handler))

HOnArrayEnd ==
  /\ phase = "value"
  /\ Close("ARRAY")

\* an inline string, as a key or as a value
HOnStringStart ==
  /\ phase = "value"
  /\ nev < MaxElems
  /\ top.kind = "BARE" => top.n = 0
  /\ \E s \in Strings :
       /\ SetHandler(onStringStart(Handler, pattern))
       /\ pending' = [s |-> s, k |-> 0]
       /\ phase' = "string"
       /\ UNCHANGED <<tree, nev, seenNear, seenSub, seenAny, ordN, ordVal>>

\* one fragment: some non-empty piece of what is left of the string
HOnStringFragment ==
  /\ phase = "string"
  /\ \E k \in (pending.k + 1)..Len(pending.s) :
       /\ SetHandler(onStringFragment(Handler, pattern, SubSeq(pending.s, pending.k + 1, k)))
       /\ pending' = [pending EXCEPT !.k = k]
       /\ UNCHANGED <<phase, tree, nev, seenNear, seenSub, seenAny, ordN, ordVal>>

HOnStringEnd ==
  /\ phase = "string"
  /\ pending.k = Len(pending.s)
  /\ SetHandler(onStringEnd(Handler, pattern))
  /\ IF AtKey THEN SawKey(pending.s) ELSE SawScalar("string", pending.s)

InitHandler ==
  /\ SourceIdle
  /\ pattern \in Patterns
  /\ HandlerIdle
  /\ DriverIdle
  /\ JsonIdle
  /\ StreamIdle

NextHandler ==
  \/ HOnValue
  \/ HOnNull
  \/ HOnBool
  \/ HOnInt
  \/ HOnUint
  \/ HOnTime
  \/ HOnDouble
  \/ HOnDictRef
  \/ HOnObjectStart
  \/ HOnObjectEnd
  \/ HOnArrayStart
  \/ HOnArrayEnd
  \/ HOnStringStart
  \/ HOnStringFragment
  \/ HOnStringEnd

SpecHandler == InitHandler /\ [][NextHandler]_vars

\* ------------------------------------------------- GrepHandler: properties
InRecord == phase \in {"value", "string", "done"}

\* C8 (as claimed): with a key pattern, matched() is true whenever a scalar
\* anywhere below the value of a key equal to the key pattern (inside nested
\* arrays and nested objects) matches the value pattern.
C8_WholeSubtreeChecked ==
  (InRecord /\ requiresKeyMatch(pattern) /\ seenSub) => matched_

\* C8 (amended): with a key pattern, matched() is true whenever a matching
\* scalar was delivered whose nearest enclosing object key equals the key
\* pattern: the value of such a key, or a scalar inside arrays nested in it.
C8_NearestKeyChecked ==
  (InRecord /\ requiresKeyMatch(pattern) /\ seenNear) => matched_

\* C8's case: the record is an object whose first key equals the key pattern
\* and whose value is an array, and the array's first scalar matched.
C8_Witness ==
  /\ phase = "value"
  /\ requiresKeyMatch(pattern)
  /\ Len(tree) = 3 /\ top.kind = "ARRAY" /\ top.n = 1 /\ nev = 4
  /\ top.near = pattern.keyPattern
  /\ seenNear /\ matched_

\* C9: with a key pattern, matched() is true only if a matching scalar was
\* delivered whose nearest enclosing object key equals the key pattern (not
\* for a value under another key, a bare top-level scalar or a key); without
\* a key pattern, matched() is true exactly when some scalar that is not a
\* key matched the value pattern.
C9_KeyRestriction ==
  InRecord =>
    IF requiresKeyMatch(pattern)
      THEN matched_ => seenNear
      ELSE matched_ <=> seenAny

\* C9's case: a complete record held a matching scalar, but not under the
\* key of the key pattern, and the handler did not report a match.
C9_Witness ==
  /\ phase = "done"
  /\ requiresKeyMatch(pattern)
  /\ seenAny /\ ~seenNear
  /\ ~matched_

\* recordPrecedesPattern()
recordPrecedesPattern == less_

\* the kind of value an ordered query is about
QueryKind ==
  IF pattern.intPattern # {} THEN "int"
  ELSE IF pattern.uintPattern # {} THEN "uint"
  ELSE IF pattern.timestampPattern # {} THEN "time"
  ELSE "none"

\* the int or uint pattern, or the start of the time range
LowBound ==
  pattern.intPattern \cup pattern.uintPattern \cup {tp[1] : tp \in pattern.timestampPattern}

MaxRecs == 4         \* most records of a file searched by bisection
MaxGrepRecs == 4     \* most records of a file searched linearly or counted by stats
MaxContext == 1      \* largest beforeContext and afterContext


SCAN_THRESHOLD == 256
PREFIX_AMOUNT == 512
\* A suffix budget that only covers the scan threshold.
SuffixThreshold == SCAN_THRESHOLD

SUFFIX_AMOUNT == SCAN_THRESHOLD + PREFIX_AMOUNT + 266

RecSizes == {100, 300}
Keys == 1..3
\* every record is the object {"k": key}, the key delivered as a dictionary
\* reference and the value by the callback of its type
Rec(size, type, key) == [size |-> size, type |-> type, key |-> key]

NonDecreasing(rs) == \A i \in 1..(Len(rs) - 1) : rs[i].key <= rs[i + 1].key

\* the patterns the drivers are run with: the value 2, as an ordered key
\* (uint) or as a double, with or without key_name "k"
DriverPatterns(type) ==
  {[vp EXCEPT !.keyPattern = kp] :
     vp \in (IF type = "uint" THEN {[NoPattern EXCEPT !.uintPattern = {2}]}
                              ELSE {[NoPattern EXCEPT !.doublePattern = {2}]}),
     kp \in {{}, {StrK}}}

RECURSIVE StartOf(_, _)
\* the position at which record i of the file starts
StartOf(rs, i) == IF i <= 1 THEN 0 ELSE StartOf(rs, i - 1) + rs[i - 1].size

\* source.endPos(): a truncated file lacks the second half of its last record
EndPos ==
  IF truncated /\ recs # <<>>
    THEN StartOf(recs, Len(recs)) + recs[Len(recs)].size \div 2
    ELSE StartOf(recs, Len(recs) + 1)

\* the record that starts at position p (Len(recs) + 1 at the end of the file)
RecAt(p) == CHOOSE i \in 1..(Len(recs) + 1) : StartOf(recs, i) = p

\* whether parsing record i runs into the end of the file
CutShort(i) == truncated /\ i = Len(recs)

\* RecordParser::parseUntilValue with a GrepHandler: the handler after the
\* callbacks of the record's value
ParseRecord(p, rec) ==
  LET h0 == onValue(p)
      h1 == onObjectStart(h0)
      h2 == onDictRef(h1, p, 0)
      h3 == IF rec.type = "double" THEN onDouble(h2, p, rec.key)
                                   ELSE onNumber(h2, p, rec.type, rec.key)
  IN onContainerEnd(h3)

\* TailHandler::sync from position p: the record boundaries at or after p
SyncTargets(p) == {StartOf(recs, i) : i \in {j \in 1..Len(recs) : StartOf(recs, j) >= p}}

\* seekSync: where the source stands afterwards; empty when it throws
seekSync(p) == IF SyncTargets(p) = {} THEN {} ELSE {SetMin(SyncTargets(p))}

\* a limit on the matches that is never reached
AtNumMatchesNever(o, n) == FALSE

\* a suffix budget that is never exceeded
PastSuffixNever(o, dist) == FALSE

\* the limits of reallyDoGrep; an absent option is the largest size_t
AtNumMatches(o, n) == \E lim \in o.numMatches : n >= lim

PastSuffix(o, dist) == \E lim \in o.scanSuffixAmount : dist > lim

DriverStep ==
  UNCHANGED <<srcVars, obsVars, hVars, pVars, fVars, jVars, tVars>>

\* the first lines of reallyDoGrep, called with the source at position p
EnterGrep(o, p) ==
  /\ opts' = IF o.count THEN [o EXCEPT !.beforeContext = 0, !.afterContext = 0] ELSE o
  /\ pc' = "reallyDoGrep"
  /\ spos' = p
  /\ posBuffer' = <<>>
  /\ force' = 0
  /\ total' = 0
  /\ matchPos' = p
  /\ firstRec' = RecAt(p)
  /\ UNCHANGED <<out, printed, diag, status, lastMatch, lastEmit, parsed, expect>>

\* a parse_error reaches the catch clause of reallyDoGrep or doBisect
CaughtInGrep ==
  /\ pc' = "done"
  /\ diag' = "stderr"
  /\ status' = "returned"

doGrep ==
  /\ pc = "doGrep"
  /\ IF opts.bisect
       THEN /\ pc' = "doBisect"
            /\ bstart' = 0
            /\ bend' = EndPos
            /\ UNCHANGED <<opts, spos, posBuffer, force, total, matchPos, out, printed,
                           diag, status, xVars>>
       ELSE /\ EnterGrep(opts, 0)
            /\ UNCHANGED <<bstart, bend>>
  /\ UNCHANGED sVars
  /\ DriverStep

\* the newest retained position: posBuffer.back()
ReplayFromBack(pb) == pb[Len(pb)]

\* the position the replay of a match starts from: posBuffer.front()
ReplayFrom(pb) == pb[1]

\* the records i .. j
Run(i, j) == [k \in 1..(j - i + 1) |-> i + k - 1]

\* what an iteration that reads record i is expected to emit: at a counted
\* match the records retained since the last match, at most beforeContext of
\* them, and the match; otherwise the record itself while it is one of the
\* afterContext records that follow the last match
Expected(i, counted) ==
  IF counted
    THEN Run(Max(Max(i - opts.beforeContext, lastMatch + 1), firstRec), i)
    ELSE IF lastMatch > 0 /\ i - lastMatch <= opts.afterContext THEN <<i>> ELSE <<>>

\* whether the loop of reallyDoGrep goes on
GrepContinues ==
  /\ spos # EndPos
  /\ force = 0 => (~AtNumMatches(opts, total) /\ ~PastSuffix(opts, spos - matchPos))

\* one iteration of the loop of reallyDoGrep
reallyDoGrepIteration ==
  /\ pc = "reallyDoGrep"
  /\ GrepContinues
  /\ LET pb1 == IF ~opts.count /\ Len(posBuffer) = opts.beforeContext + 1
                  THEN Tail(posBuffer) ELSE posBuffer
         pb2 == Append(pb1, spos)
         i == RecAt(spos)
         h == ParseRecord(pattern, recs[i])
         after == StartOf(recs, i + 1)
         counted == h.matched_ /\ ~AtNumMatches(opts, total)
     IN /\ parsed' = Append(parsed, [rec |-> i, forced |-> force # 0])
        /\ IF CutShort(i)
          THEN /\ CaughtInGrep
               /\ posBuffer' = pb2
               /\ UNCHANGED <<opts, spos, force, total, matchPos, out, printed,
                              lastMatch, firstRec, lastEmit, expect>>
          ELSE /\ IF counted
                    THEN /\ matchPos' = pb2[Len(pb2)]
                         /\ total' = total + 1
                         /\ IF opts.count
                              THEN /\ posBuffer' = pb2
                                   /\ spos' = after
                                   /\ lastEmit' = <<>>
                                   /\ UNCHANGED <<force, out>>
                              ELSE LET first == RecAt(ReplayFrom(pb2))
                                       last == Min(first + Len(pb2) - 1, Len(recs))
                                       emitted == Run(first, last)
                                   IN /\ out' = out \o emitted
                                      /\ lastEmit' = emitted
                                      /\ spos' = StartOf(recs, last + 1)
                                      /\ posBuffer' = <<>>
                                      /\ force' = opts.afterContext
                    ELSE IF force # 0
                           THEN /\ out' = Append(out, RecAt(pb2[Len(pb2)]))
                                /\ lastEmit' = <<RecAt(pb2[Len(pb2)])>>
                                /\ spos' = StartOf(recs, RecAt(pb2[Len(pb2)]) + 1)
                                /\ force' = force - 1
                                /\ posBuffer' = pb2
                                /\ UNCHANGED <<matchPos, total>>
                           ELSE /\ spos' = after
                                /\ posBuffer' = pb2
                                /\ lastEmit' = <<>>
                                /\ UNCHANGED <<matchPos, total, force, out>>
               /\ expect' = Expected(i, counted)
               /\ lastMatch' = IF counted THEN i ELSE lastMatch
               /\ UNCHANGED <<opts, pc, printed, diag, status, firstRec>>
  /\ UNCHANGED <<bstart, bend, sVars>>
  /\ DriverStep

\* the loop of reallyDoGrep ends: the count is printed and the driver returns
reallyDoGrepReturn ==
  /\ pc = "reallyDoGrep"
  /\ ~GrepContinues
  /\ printed' = IF opts.count THEN Append(printed, total) ELSE printed
  /\ pc' = "done"
  /\ status' = "returned"
  /\ UNCHANGED <<opts, bstart, bend, spos, posBuffer, force, total, matchPos, out, diag,
                 sVars, xVars>>
  /\ DriverStep

\* the place doBisect probes: next = start + (end-start)/2
Probe == bstart + (bend - bstart) \div 2

\* <<start, end>> after the probe found and parsed the record that begins at sor
Narrowed(sor) ==
  IF ParseRecord(pattern, recs[RecAt(sor)]).less_ THEN <<sor, bend>> ELSE <<bstart, sor>>

\* one iteration of the loop of doBisect; the loop's exit
doBisectIteration ==
  /\ pc = "doBisect"
  /\ IF ~(bend > bstart)
       THEN /\ pc' = "done"
            /\ status' = "returned"
            /\ UNCHANGED <<opts, bstart, bend, spos, posBuffer, force, total, matchPos, out,
                           printed, diag, xVars>>
       ELSE IF bend - bstart <= SCAN_THRESHOLD
         THEN LET at == seekSync(IF bstart > PREFIX_AMOUNT THEN bstart - PREFIX_AMOUNT ELSE 0)
              IN IF at = {}
                   THEN /\ CaughtInGrep
                        /\ UNCHANGED <<opts, bstart, bend, spos, posBuffer, force, total,
                                       matchPos, out, printed, xVars>>
                   ELSE /\ \E p \in at :
                             EnterGrep([opts EXCEPT !.scanSuffixAmount = {SUFFIX_AMOUNT}], p)
                        /\ UNCHANGED <<bstart, bend>>
         ELSE LET at == seekSync(Probe)
              IN IF at = {}
                   THEN /\ CaughtInGrep
                        /\ UNCHANGED <<opts, bstart, bend, spos, posBuffer, force, total,
                                       matchPos, out, printed, xVars>>
                   ELSE \E sor \in at :
                          LET i == RecAt(sor)
                          IN IF CutShort(i)
                               THEN /\ CaughtInGrep
                                    /\ spos' = sor
                                    /\ UNCHANGED <<opts, bstart, bend, posBuffer, force,
                                                   total, matchPos, out, printed, xVars>>
                               ELSE /\ spos' = StartOf(recs, i + 1)
                                    /\ bstart' = Narrowed(sor)[1]
                                    /\ bend' = Narrowed(sor)[2]
                                    /\ UNCHANGED <<opts, pc, posBuffer, force, total,
                                                   matchPos, out, printed, diag, status,
                                                   xVars>>
  /\ UNCHANGED sVars
  /\ DriverStep

\* ---- stats: StatsDecoder::decode with a SmallIntRecordHandler
RECURSIVE SumTo(_, _)
SumTo(f, n) == IF n = 0 THEN 0 ELSE f[n] + SumTo(f, n - 1)

\* the bytes of an integer's varint; the keys of the model take one byte
VarintLen(v) == 1

\* SmallIntValueHandler: onInt, onUint, onDouble
CountValue(c, rec) ==
  CASE rec.type \in {"int", "uint"} ->
         [c EXCEPT !.intSizes[VarintLen(rec.key)] = @ + 1]
    [] rec.type = "double" -> [c EXCEPT !.doubles = @ + 1]
    [] OTHER -> c

\* parseStream: one record; a record cut short raises a parse_error, which
\* decode prints on standard output
decodeRecord ==
  /\ pc = "decode"
  /\ spos # EndPos
  /\ LET i == RecAt(spos)
         c1 == [counters EXCEPT !.numRecords = @ + 1]
     IN IF CutShort(i)
          THEN /\ counters' = c1
               /\ diag' = "stdout"
               /\ pc' = "dumpStats"
               /\ spos' = EndPos
          ELSE /\ counters' = CountValue([c1 EXCEPT !.numValues = @ + 1], recs[i])
               /\ spos' = StartOf(recs, i + 1)
               /\ UNCHANGED <<diag, pc>>
  /\ UNCHANGED <<opts, bstart, bend, posBuffer, force, total, matchPos, out, printed,
                 status, xVars>>
  /\ DriverStep

\* parseStream returns at the end of the file
decodeEnd ==
  /\ pc = "decode"
  /\ spos = EndPos
  /\ pc' = "dumpStats"
  /\ UNCHANGED <<opts, bstart, bend, spos, posBuffer, force, total, matchPos, out, printed,
                 diag, status, sVars, xVars>>
  /\ DriverStep

\* the report of decode and dumpStats, then the return of stats(); the
\* percentages divide by totalInts
dumpStats ==
  /\ pc = "dumpStats"
  /\ LET totalInts == SumTo(counters.intSizes, IntSizesLen)
     IN /\ printed' = <<counters.numRecords, counters.numValues, counters.doubles, totalInts>>
        /\ status' \in (IF totalInts = 0 THEN {"0", "fault"} ELSE {"0"})
  /\ pc' = "done"
  /\ UNCHANGED <<opts, bstart, bend, spos, posBuffer, force, total, matchPos, out, diag,
                 sVars, xVars>>
  /\ DriverStep

\* ---- the specifications of the drivers
BisectFiles ==
  {rs \in UNION {[1..n -> {Rec(s, "uint", k) : s \in RecSizes, k \in Keys}] : n \in 0..MaxRecs} :
     NonDecreasing(rs)}

\* the files as the records of type ty
Typed(rs, ty) == [i \in 1..Len(rs) |-> [rs[i] EXCEPT !.type = ty]]

GrepFiles ==
  UNION {[1..n -> {Rec(100, "uint", k) : k \in {2, 3}}] : n \in 0..MaxGrepRecs}

DriverInit(o, start) ==
  /\ SourceIdle
  /\ HandlerIdle
  /\ JsonIdle
  /\ StreamIdle
  /\ opts = o
  /\ pc = start
  /\ bstart = 0
  /\ bend = 0
  /\ spos = 0
  /\ posBuffer = <<>>
  /\ force = 0
  /\ total = 0
  /\ matchPos = 0
  /\ out = <<>>
  /\ printed = <<>>
  /\ diag = "none"
  /\ status = "running"
  /\ counters = NoCounters
  /\ lastMatch = 0
  /\ firstRec = 0
  /\ lastEmit = <<>>
  /\ parsed = <<>>
  /\ expect = <<>>

\* grep of a file with a non-decreasing key, with and without bisection
InitBisect ==
  /\ \E ty \in {"uint", "double"} :
       /\ recs \in {Typed(rs, ty) : rs \in BisectFiles}
       /\ pattern \in DriverPatterns(ty)
  /\ truncated = FALSE
  /\ \E b \in BOOLEAN, c \in BOOLEAN :
       DriverInit([NoOpts EXCEPT !.bisect = b, !.count = c], "doGrep")

NextBisect ==
  \/ doGrep
  \/ doBisectIteration
  \/ reallyDoGrepIteration
  \/ reallyDoGrepReturn

SpecBisect == InitBisect /\ [][NextBisect]_vars

GrepOpts ==
  {[NoOpts EXCEPT !.beforeContext = b, !.afterContext = a, !.count = c,
                  !.numMatches = n, !.scanSuffixAmount = s] :
     b \in 0..MaxContext, a \in 0..MaxContext, c \in BOOLEAN,
     n \in {{}, {0}, {1}}, s \in {{}, {150}}}

\* linear grep of a file that may be cut short
InitGrep ==
  /\ recs \in GrepFiles
  /\ truncated \in {t \in BOOLEAN : t => recs # <<>>}
  /\ pattern \in DriverPatterns("uint")
  /\ \E o \in GrepOpts : DriverInit(o, "doGrep")

NextGrep ==
  \/ doGrep
  \/ reallyDoGrepIteration
  \/ reallyDoGrepReturn

SpecGrep == InitGrep /\ [][NextGrep]_vars

\* stats of a file that may be cut short
InitStats ==
  /\ \E ty \in {"uint", "int", "double", "time"} :
       recs \in {Typed(rs, ty) : rs \in GrepFiles}
  /\ truncated \in {t \in BOOLEAN : t => recs # <<>>}
  /\ pattern = NoPattern
  /\ DriverInit(NoOpts, "decode")

NextStats ==
  \/ decodeRecord
  \/ decodeEnd
  \/ dumpStats

SpecStats == InitStats /\ [][NextStats]_vars

\* ------------------------------------------------------ drivers: properties
Range(s) == {s[i] : i \in 1..Len(s)}

\* the records a GrepHandler reports as matching
Matching == {i \in 1..Len(recs) : ParseRecord(pattern, recs[i]).matched_}

\* the pattern queries the ordered key (int, uint or timestamp)
OrderedQuery == \E ty \in {"int", "uint", "time"} : QueryLow(pattern, ty) # {}

\* C5: bisect correctness.  When doGrep with bisect over a file with a
\* non-decreasing key K has ended, for a query q of the ordered key, every
\* record with K == q was handed to the output by the final linear grep.
C5_BisectFindsEveryMatch ==
  (pc = "done" /\ opts.bisect /\ OrderedQuery) =>
    \A i \in 1..Len(recs) : recs[i].key \in pattern.uintPattern => i \in Range(out)

\* C6: grep with and without bisect are equivalent.  For every pattern (a
\* uint or a double value, with or without key_name) and every file with a
\* non-decreasing key, doGrep reports, with bisect as without it, the set of
\* the matching records of the file.
C6_BisectEqualsLinear ==
  pc = "done" => Range(out) = Matching

\* the linear side of C6 alone
LinearReportsMatching ==
  (pc = "done" /\ ~opts.bisect) => Range(out) = Matching

\* C7: truncation is reported as a failure.  When stats has ended on a file
\* whose last record is cut short, the parse_error was reported on the
\* standard error channel and the invocation returned a non-zero status.
C7_TruncationFails ==
  (pc = "done" /\ truncated) => (diag = "stderr" /\ status # "0")

\* C10: context emission.  Without count, every iteration of reallyDoGrep
\* hands to the output handler what is expected of it: at a match, in stream
\* order, the records retained since the previous match (at most
\* beforeContext of them, those just before the match) and then the match;
\* after a match, each of the next afterContext records as it is read,
\* matching or not; nothing otherwise.  A match is a matching record read
\* while fewer than numMatches matches were counted.
C10_ContextEmission ==
  (pc \in {"reallyDoGrep", "done"} /\ ~opts.count) => lastEmit = expect

\* C10's case: with beforeContext = afterContext = 1, the second record
\* matched and was emitted after the first, and the third, which does not
\* match, was then emitted as after-context.
C10_Witness ==
  /\ pc = "reallyDoGrep"
  /\ opts.beforeContext = 1 /\ opts.afterContext = 1 /\ ~opts.count
  /\ out = <<1, 2, 3>>
  /\ Matching \cap {1, 2, 3} = {2}
  /\ lastMatch = 2
  /\ lastEmit = <<3>>

\* the records reallyDoGrep read
Read == {parsed[k].rec : k \in 1..Len(parsed)}

\* the limit num_matches sets (none: more than the file holds)
Limit == IF opts.numMatches = {} THEN Len(recs) + 1 ELSE SetMin(opts.numMatches)

InGrep == pc \in {"reallyDoGrep", "done"}

\* total never exceeds num_matches, and once num_matches matches were
\* counted no record is read beyond the after_context records that follow
\* the last of them (none at all for num_matches = 0)
NumMatchesStops ==
  /\ total <= Limit
  /\ total >= Limit =>
       \A i \in Read : lastMatch > 0 /\ i <= lastMatch + opts.afterContext

\* C11 (as claimed): with num_matches = N, reallyDoGrep never counts more
\* than N matches, never hands more than N matching records to the output,
\* and reads nothing beyond the after_context of the Nth match.
C11_AtMostNMatchingReported ==
  (InGrep /\ opts.numMatches # {}) =>
    /\ NumMatchesStops
    /\ Cardinality(Range(out) \cap Matching) <= Limit

\* C11 (amended): with num_matches = N, reallyDoGrep never counts more than
\* N matches, the records it emits up to the last counted match hold at most
\* N matching records, and once N matches were counted it reads only the
\* after_context records that follow the Nth match (none for N = 0); those
\* are emitted whether or not they match.
C11_AtMostNCounted ==
  (InGrep /\ opts.numMatches # {}) =>
    /\ NumMatchesStops
    /\ Cardinality({i \in Range(out) \cap Matching : i <= lastMatch}) <= Limit

\* C11's case: with num_matches = 1 and after_context = 1 the first record
\* matched, the second was emitted as its after-context, and the driver
\* returned without reading the third.
C11_Witness ==
  /\ pc = "done"
  /\ opts.numMatches = {1} /\ opts.afterContext = 1 /\ ~opts.count
  /\ opts.scanSuffixAmount = {}
  /\ Len(recs) >= 3 /\ ~truncated
  /\ total = 1
  /\ out = <<1, 2>>
  /\ Read = {1, 2}

\* the record read most recently before entry k of parsed that matches
LastMatchingBefore(k) ==
  LET prior == {parsed[j].rec : j \in 1..(k - 1)} \cap Matching
  IN IF prior = {} THEN 0 ELSE CHOOSE m \in prior : \A x \in prior : x <= m

\* C12: scan_suffix bound.  With scan_suffix = S, every record reallyDoGrep
\* started to parse while no after-context was pending, and after some
\* record had matched, begins at most S past the start of the most recent
\* matching record read before it.
C12_ScanSuffixBound ==
  InGrep =>
    \A S \in opts.scanSuffixAmount :
      \A k \in 1..Len(parsed) :
        (~parsed[k].forced /\ LastMatchingBefore(k) > 0) =>
          StartOf(recs, parsed[k].rec) - StartOf(recs, LastMatchingBefore(k)) <= S

\* C12's case: with scan_suffix = 150 the first record (at 0) matched, the
\* second (at 100) was read and did not match, and the third (at 200) was
\* not read although nothing else stopped the scan.
C12_Witness ==
  /\ pc = "done"
  /\ opts.scanSuffixAmount = {150} /\ opts.numMatches = {} /\ opts.afterContext = 0
  /\ ~truncated
  /\ Len(recs) >= 3
  /\ Matching \cap {1, 2} = {1}
  /\ Read = {1, 2}

\* C13: count mode.  When doGrep with count has ended, linear or bisect,
\* the contexts are 0, nothing was handed to the output handler, and exactly
\* one number was printed: the number of matching records read, capped by
\* num_matches.
C13_CountPrinted ==
  (pc = "done" /\ opts.count) =>
    /\ opts.beforeContext = 0 /\ opts.afterContext = 0
    /\ out = <<>>
    /\ printed = <<Min(Cardinality(Read \cap Matching), Limit)>>

\* the linear side of C13 on whole files
LinearCountPrinted ==
  (pc = "done" /\ opts.count /\ ~opts.bisect /\ ~truncated) =>
    /\ opts.beforeContext = 0 /\ opts.afterContext = 0
    /\ out = <<>>
    /\ printed = <<Min(Cardinality(Read \cap Matching), Limit)>>

\* ------------------------------------------- json2au and the JSON output
\* Strings are sequences of characters.  A time is held as whole days since
\* the epoch, seconds of the day and nanoseconds of the second, so that
\* n = (day * 86400 + sod) * 10^9 + nsec with 0 <= sod < 86400 and
\* 0 <= nsec < 10^9, and no number of the model leaves 32 bits.
DigitChars == <<"0", "1", "2", "3", "4", "5", "6", "7", "8", "9">>

IsDigit(c) == \E d \in 1..10 : DigitChars[d] = c

DigitVal(c) == (CHOOSE d \in 1..10 : DigitChars[d] = c) - 1

RECURSIVE strtol(_)
\* strtol(s, nullptr, 10) of a string of digits
strtol(s) == IF s = <<>> THEN 0 ELSE strtol(SubSeq(s, 1, Len(s) - 1)) * 10 + DigitVal(s[Len(s)])

RECURSIVE Digits(_, _)
\* n >= 0 printed in w digits, padded with zeros
Digits(n, w) == IF w = 0 THEN <<>> ELSE Digits(n \div 10, w - 1) \o <<DigitChars[(n % 10) + 1]>>

\* timeRegExp: ^(\d{4})-(\d{2})-(\d{2})T(\d{2}):(\d{2}):(\d{2})\.(\d{6})$
TimeSeparators == [i \in {5, 8, 11, 14, 17, 20} |->
                     CASE i \in {5, 8} -> "-" [] i = 11 -> "T" [] i \in {14, 17} -> ":" [] OTHER -> "."]

TimeLength == 26

MatchesTimeRegExp(s) ==
  /\ Len(s) = TimeLength
  /\ \A i \in 1..TimeLength :
       IF i \in DOMAIN TimeSeparators THEN s[i] = TimeSeparators[i] ELSE IsDigit(s[i])

\* the seven groups of a match
TimeGroups(s) ==
  [year |-> strtol(SubSeq(s, 1, 4)), mon |-> strtol(SubSeq(s, 6, 7)),
   mday |-> strtol(SubSeq(s, 9, 10)), hour |-> strtol(SubSeq(s, 12, 13)),
   min |-> strtol(SubSeq(s, 15, 16)), sec |-> strtol(SubSeq(s, 18, 19)),
   mics |-> strtol(SubSeq(s, 21, 26))]

IsLeap(y) == (y % 4 = 0 /\ y % 100 # 0) \/ y % 400 = 0

LeapsThrough(y) == y \div 4 - y \div 100 + y \div 400

\* the days of the months before month m (0 = January) of a year
DaysBeforeMonth(leap, m) ==
  <<0, 31, 59, 90, 120, 151, 181, 212, 243, 273, 304, 334>>[m + 1]
    + (IF leap /\ m >= 2 THEN 1 ELSE 0)

EpochYear == 1970

\* timegm of a struct tm with the fields of g (tm_year = year - 1900,
\* tm_mon = mon - 1): fields out of range are carried over, nothing is
\* rejected.  The result as days since the epoch and seconds of the day.
timegm(g) ==
  LET y == g.year + (g.mon - 1) \div 12
      m == (g.mon - 1) % 12
      days == 365 * (y - EpochYear) + LeapsThrough(y - 1) - LeapsThrough(EpochYear - 1)
                + DaysBeforeMonth(IsLeap(y), m) + g.mday - 1
      secs == g.hour * 3600 + g.min * 60 + g.sec
  IN [day |-> days + secs \div 86400, sod |-> secs % 86400]

\* tt == -1
IsMinusOne(tt) == tt.day = -1 /\ tt.sod = 86399

\* the largest and the smallest value of a signed 64-bit count of
\* nanoseconds: 2^63 - 1 and -2^63
MaxTime == [day |-> 106751, sod |-> 85636, nsec |-> 854775807]
MinTime == [day |-> -106752, sod |-> 763, nsec |-> 145224192]

TimeLeq(a, b) ==
  \/ a.day < b.day
  \/ a.day = b.day /\ a.sod < b.sod
  \/ a.day = b.day /\ a.sod = b.sod /\ a.nsec <= b.nsec

\* whether epoch + seconds(tt) + microseconds(mics) stays within 64 bits
Fits(tm) == TimeLeq(MinTime, tm) /\ TimeLeq(tm, MaxTime)

\* what a signed overflow may leave in the time_point: some 64-bit values
OverflowOutcomes ==
  {MinTime, MaxTime, [day |-> 0, sod |-> 0, nsec |-> 0],
   [day |-> 18262, sod |-> 43200, nsec |-> 500000000]}

\* JsonSaxHandler::tryTime: the values the writer may get; none when it
\* returns false
tryTime(s) ==
  IF ~MatchesTimeRegExp(s) THEN {}
  ELSE LET g == TimeGroups(s)
           tt == timegm(g)
           whole == [day |-> tt.day, sod |-> tt.sod, nsec |-> 0]
           tm == [day |-> tt.day, sod |-> tt.sod, nsec |-> g.mics * 1000]
       IN IF IsMinusOne(tt) THEN {}
          ELSE IF Fits(whole) /\ Fits(tm) THEN {[kind |-> "time", t |-> tm]}
          ELSE {[kind |-> "time", t |-> o] : o \in OverflowOutcomes}

\* JsonSaxHandler::String (toInt_ is never set)
String(s) ==
  LET tv == IF Len(s) = TimeLength THEN tryTime(s) ELSE {}
  IN IF tv # {} THEN tv ELSE {[kind |-> "string", s |-> s]}

\* the year, month and day of a count of days since the epoch
CivilFromDays(z0) ==
  LET z == z0 + 719468
      era == z \div 146097
      doe == z - era * 146097
      yoe == (doe - doe \div 1460 + doe \div 36524 - doe \div 146096) \div 365
      doy == doe - (365 * yoe + yoe \div 4 - yoe \div 100)
      mp == (5 * doy + 2) \div 153
      m == IF mp < 10 THEN mp + 3 ELSE mp - 9
  IN [year |-> yoe + era * 400 + (IF m <= 2 THEN 1 ELSE 0), mon |-> m,
      mday |-> doy - (153 * mp + 2) \div 5 + 1]

\* yyyy-mm-ddThh:mm:ss.uuuuuu
TimeText(g) ==
  Digits(g.year, 4) \o <<"-">> \o Digits(g.mon, 2) \o <<"-">> \o Digits(g.mday, 2) \o <<"T">>
    \o Digits(g.hour, 2) \o <<":">> \o Digits(g.min, 2) \o <<":">> \o Digits(g.sec, 2)
    \o <<".">> \o Digits(g.mics, 6)

Quoted(s) == <<"\"">> \o s \o <<"\"">>

\* a time printed with its microseconds rounded to the nearest
onTimeRounded(tm) ==
  LET c == CivilFromDays(tm.day)
  IN Quoted(TimeText([year |-> c.year, mon |-> c.mon, mday |-> c.mday,
                      hour |-> tm.sod \div 3600, min |-> (tm.sod % 3600) \div 60,
                      sec |-> tm.sod % 60, mics |-> ((tm.nsec + 500) \div 1000) % 1000000]))

\* JsonOutputHandler::onTime: the UTC date and time of day of the value, and
\* its microseconds
onTime(tm) ==
  LET c == CivilFromDays(tm.day)
  IN Quoted(TimeText([year |-> c.year, mon |-> c.mon, mday |-> c.mday,
                      hour |-> tm.sod \div 3600, min |-> (tm.sod % 3600) \div 60,
                      sec |-> tm.sod % 60, mics |-> tm.nsec \div 1000]))

\* what the JSON output prints for a decoded value
JsonText(v) == IF v.kind = "time" THEN onTime(v.t) ELSE Quoted(v.s)

JsonStep == UNCHANGED <<srcVars, obsVars, hVars, pVars, dVars, tVars, eVars>>

\* the argument handling of json2au
json2au ==
  /\ jpc = "json2au"
  /\ LET argc == Len(jargs)
     IN IF argc < 2 \/ argc > 3
          THEN /\ jstatus' = "-1"
               /\ jpc' = "exit"
               /\ UNCHANGED <<inFName, outFName, maxEntries>>
          ELSE /\ maxEntries' = IF argc >= 3 THEN {strtol(jargs[3])} ELSE {}
               /\ outFName' = IF argc >= 2 THEN jargs[2] ELSE "-"
               /\ inFName' = IF argc >= 1 THEN jargs[1] ELSE "-"
               /\ jpc' = "String"
               /\ jstatus' = jstatus
  /\ UNCHANGED <<jargs, jin, stored, jout>>
  /\ JsonStep

\* the reader hands the string value of the input to the SAX handler
JsonString ==
  /\ jpc = "String"
  /\ stored' \in String(jin)
  /\ jpc' = "au"
  /\ UNCHANGED <<jargs, inFName, outFName, maxEntries, jstatus, jin, jout>>
  /\ JsonStep

\* the encoded value is decoded and printed as JSON
AuToJson ==
  /\ jpc = "au"
  /\ jout' = JsonText(stored)
  /\ jpc' = "json"
  /\ UNCHANGED <<jargs, inFName, outFName, maxEntries, jstatus, jin, stored>>
  /\ JsonStep

\* ---- the specification of json2au followed by the decoding to JSON
\* the positional arguments: none to four
ArgLists ==
  {<<>>, <<"in.json">>, <<"in.json", "out.au">>, <<"in.json", "out.au", <<"2">>>>,
   <<"in.json", "out.au", <<"2">>, "more">>}

\* strings of the form of the time pattern, with fields in and out of range
TimeForms ==
  {TimeText([year |-> y, mon |-> mo, mday |-> d, hour |-> h, min |-> mi, sec |-> s,
             mics |-> us]) :
     y \in {1969, 1970, 2020, 2500}, mo \in {1, 2, 12, 13}, d \in {1, 29, 30, 31},
     h \in {0, 23, 25}, mi \in {0, 59}, s \in {0, 59}, us \in {0, 123456, 999999}}

\* other strings: not of the length, and of the length but not of the form
OtherStrings ==
  {<<"a", "b">>,
   [i \in 1..TimeLength |-> IF i = 11 THEN " " ELSE
      TimeText([year |-> 1970, mon |-> 1, mday |-> 1, hour |-> 0, min |-> 0, sec |-> 0,
                mics |-> 123456])[i]]}

\* times an Au stream can hold, written by any encoder
TimeValues ==
  {tm \in [day : {-1, 0, 58, 59, 789, 18321, 106751}, sod : {0, 86399},
           nsec : {0, 999, 123456789, 999999999}] : Fits(tm)}

InitJson ==
  /\ EncodeIdle
  /\ SourceIdle
  /\ StreamIdle
  /\ HandlerIdle
  /\ pattern = NoPattern
  /\ DriverIdle
  /\ inFName = "-"
  /\ outFName = "-"
  /\ maxEntries = {}
  /\ jstatus = "running"
  /\ jout = <<>>
  /\ \/ /\ jpc = "json2au"
        /\ jargs \in ArgLists
        /\ jin \in TimeForms \cup OtherStrings
        /\ stored = NoValue
     \/ /\ jpc = "au"
        /\ jargs = <<>>
        /\ jin = <<>>
        /\ stored \in {[kind |-> "time", t |-> tm] : tm \in TimeValues}

NextJson ==
  \/ json2au
  \/ JsonString
  \/ AuToJson

SpecJson == InitJson /\ [][NextJson]_vars

\* ---------------------------------------------------- json2au: properties
\* C14: time round-trip.  Every string of the form of the time pattern that
\* json2au encoded, as a time or as a string, is printed by the decoder as
\* the identical JSON string.
C14_TimeRoundTrip ==
  (jpc = "json" /\ MatchesTimeRegExp(jin)) => jout = Quoted(jin)

\* the days of month m (1 = January) of year y
DaysInMonth(y, m) ==
  IF m = 2 THEN (IF IsLeap(y) THEN 29 ELSE 28)
  ELSE IF m \in {4, 6, 9, 11} THEN 30 ELSE 31

\* the fields name a moment of the UTC calendar
ValidFields(g) ==
  /\ g.mon \in 1..12
  /\ g.mday \in 1..DaysInMonth(g.year, g.mon)
  /\ g.hour < 24 /\ g.min < 60 /\ g.sec < 60

\* the side of C14 that holds: a string that names a moment of the calendar
\* within the range of the 64-bit nanoseconds comes back unchanged
ValidTimeRoundTrip ==
  (jpc = "json" /\ MatchesTimeRegExp(jin) /\ ValidFields(TimeGroups(jin))
     /\ TimeGroups(jin).year \in 1678..2261) => jout = Quoted(jin)

Unquoted(s) == SubSeq(s, 2, Len(s) - 1)

\* C15: JSON time formatting.  For a time of n nanoseconds since the epoch
\* the decoder prints a quoted string of the form yyyy-mm-ddThh:mm:ss.uuuuuu
\* whose fields name the moment of the UTC calendar that lies floor(n / 10^9)
\* seconds after the epoch, and whose microseconds are n's nanoseconds of
\* the second divided by 1000 with the remainder dropped.
C15_TimeFormat ==
  (jpc = "json" /\ stored.kind = "time") =>
    /\ jout = Quoted(Unquoted(jout))
    /\ MatchesTimeRegExp(Unquoted(jout))
    /\ LET g == TimeGroups(Unquoted(jout))
       IN /\ ValidFields(g)
          /\ timegm(g) = [day |-> stored.t.day, sod |-> stored.t.sod]
          /\ g.mics * 1000 <= stored.t.nsec
          /\ stored.t.nsec < g.mics * 1000 + 1000

\* C15's case: 123456789 ns after the epoch is printed as
\* "1970-01-01T00:00:00.123456".
C15_Witness ==
  /\ jpc = "json"
  /\ stored = [kind |-> "time", t |-> [day |-> 0, sod |-> 0, nsec |-> 123456789]]
  /\ jout = Quoted(TimeText([year |-> 1970, mon |-> 1, mday |-> 1, hour |-> 0, min |-> 0,
                             sec |-> 0, mics |-> 123456]))

\* C19: the positional arguments of json2au are optional.  Called with zero
\* to three of them, json2au does not return -1 and goes on with the names
\* given, "-" for a missing input or output and no limit for a missing
\* max_records.
C19_ArgumentsOptional ==
  (jpc \notin {"idle", "json2au"} /\ Len(jargs) <= 3 /\ jin # <<>>) =>
    /\ jstatus # "-1"
    /\ inFName = (IF Len(jargs) >= 1 THEN jargs[1] ELSE "-")
    /\ outFName = (IF Len(jargs) >= 2 THEN jargs[2] ELSE "-")
    /\ maxEntries = (IF Len(jargs) >= 3 THEN {strtol(jargs[3])} ELSE {})

\* the side of C19 that holds: two or three arguments
TwoOrThreeArguments ==
  (jpc \notin {"idle", "json2au"} /\ Len(jargs) \in {2, 3}) =>
    /\ jstatus # "-1"
    /\ inFName = jargs[1]
    /\ outFName = jargs[2]
    /\ maxEntries = (IF Len(jargs) = 3 THEN {strtol(jargs[3])} ELSE {})

\* ------------------------------------- FileByteSource, call by call in steps
\* The source as a program that runs: a next or peek that finds no byte in
\* tail mode stays asleep in read() while the file may grow, and a scanTo is
\* followed from one iteration of its loops to the next.

\* A read() that never sleeps.
SleepsNever(r) == FALSE

\* read(): bytesRead == 0 && waitForData_, the condition of sleep(1) and of
\* another turn of the do-while loop
Sleeps(r) == waitForData /\ ~r.ok

CallOp(op, s, ch) == IF op = "next" THEN next(s, ch) ELSE peek(s, ch)

Consumed(op, r) == IF op = "next" /\ r.ok THEN 1 ELSE 0

\* run is counted up to MIN_HIST_SIZE, the most that read() is sure to keep
Counted(n) == Min(MIN_HIST_SIZE, n)

StreamStep == UNCHANGED <<obsVars, hVars, pVars, dVars, jVars, waitForData>>

\* next() or peek() up to its return or to the first sleep(1) of read()
StreamCall ==
  /\ call = NoCall
  /\ Usable
  /\ \E op \in {"next", "peek"}, ch \in OneChunk :
       LET r == CallOp(op, Src, ch)
       IN /\ Assign(r)
          /\ IF Sleeps(r)
               THEN /\ call' = [op |-> op]
                    /\ UNCHANGED <<ret, slept, run>>
               ELSE /\ call' = NoCall
                    /\ ret' = r.ret
                    /\ slept' = FALSE
                    /\ run' = Counted(run + Consumed(op, r))
  /\ StreamStep

\* read() wakes up and calls doRead again; with no byte it sleeps again, with
\* some the next or peek that called it returns
StreamRetry ==
  /\ call.op \in {"next", "peek"}
  /\ \E ch \in OneChunk :
       LET r0 == doRead(Src, ch[1])
           r == IF r0.ok THEN CallOp(call.op, r0, ch) ELSE [r0 EXCEPT !.ret = EOF]
       IN IF Sleeps(r0)
            THEN UNCHANGED <<srcVars, tVars>>
            ELSE /\ Assign(r)
                 /\ call' = NoCall
                 /\ ret' = r.ret
                 /\ slept' = TRUE
                 /\ run' = Counted(run + Consumed(call.op, r))
  /\ StreamStep

\* another process appends a byte to the file that is tailed
FileAppend ==
  /\ waitForData
  /\ Len(file) < MaxFileLen
  /\ \E b \in Bytes : file' = Append(file, b)
  /\ UNCHANGED <<fpos, buf, bufSize, cur, pos, pinPos, thrown, call, ret, slept, run>>
  /\ StreamStep

\* A call whose read() would sleep is followed for next and peek only.
Returns(r) == waitForData => ~r.thrown

StreamReadFunc ==
  /\ call = NoCall
  /\ Usable
  /\ \E len \in ReadLens, ch \in OneChunk :
       LET r == readFunc(Src, len, ch)
       IN /\ Returns(r)
          /\ Assign(r)
          /\ run' = Counted(run + (r.pos - pos))
  /\ ret' = "none"
  /\ slept' = FALSE
  /\ UNCHANGED call
  /\ StreamStep

StreamSeek ==
  /\ call = NoCall
  /\ Usable
  /\ \E abspos \in Positions, ch \in OneChunk :
       LET r == seek(Src, abspos, ch)
       IN /\ Returns(r)
          /\ Assign(r)
  /\ ret' = "none"
  /\ run' = 0
  /\ slept' = FALSE
  /\ UNCHANGED call
  /\ StreamStep

StreamSetPin ==
  /\ call = NoCall
  /\ Usable
  /\ \E abspos \in Positions :
       /\ abspos >= pos - cur
       /\ Assign(setPin(Src, abspos))
  /\ UNCHANGED tVars
  /\ StreamStep

StreamClearPin ==
  /\ call = NoCall
  /\ Usable
  /\ Assign(clearPin(Src))
  /\ UNCHANGED tVars
  /\ StreamStep

\* scanTo(needle) is called on a stream that is not tailed
StreamScanTo ==
  /\ call = NoCall
  /\ Usable
  /\ ~waitForData
  /\ \E needle \in Needles : call' = [op |-> "scanTo", needle |-> needle]
  /\ ret' = "none"
  /\ slept' = FALSE
  /\ run' = 0
  /\ UNCHANGED srcVars
  /\ StreamStep

InScanTo == call.op = "scanTo"

\* scanTo's inner loop is about to read
InnerRetry == InScanTo /\ buffAvail(Src) < Len(call.needle)

\* scanTo's outer loop is about to search the buffered bytes
OuterSearch == InScanTo /\ buffAvail(Src) >= Len(call.needle)

\* while (buffAvail() < needle.length()) if (!read()) return false;
ScanRead ==
  /\ InnerRetry
  /\ \E ch \in OneChunk :
       LET r == read(Src, ch)
       IN /\ Assign(r)
          /\ IF r.ok
               THEN UNCHANGED <<call, ret>>
               ELSE /\ call' = NoCall
                    /\ ret' = "false"
  /\ UNCHANGED <<slept, run>>
  /\ StreamStep

\* memmem found the needle: return true
ScanFound ==
  /\ OuterSearch
  /\ memmem(Src, call.needle) >= 0
  /\ LET found == memmem(Src, call.needle)
     IN Assign([Src EXCEPT !.pos = @ + found, !.cur = @ + found])
  /\ call' = NoCall
  /\ ret' = "true"
  /\ UNCHANGED <<slept, run>>
  /\ StreamStep

\* memmem did not find it: skip(buffAvail() - (needle.length() - 1))
ScanMiss ==
  /\ OuterSearch
  /\ memmem(Src, call.needle) < 0
  /\ \E ch \in OneChunk :
       LET k == skip(Src, ScanSkipAmount(Src, call.needle), ch)
       IN /\ Assign(k)
          /\ IF k.thrown
               THEN /\ call' = NoCall
                    /\ ret' = "threw"
               ELSE UNCHANGED <<call, ret>>
  /\ UNCHANGED <<slept, run>>
  /\ StreamStep

ScanIteration == ScanRead \/ ScanFound \/ ScanMiss

InitStream ==
  /\ file \in Files
  /\ fpos = 0
  /\ buf = <<>>
  /\ bufSize = INIT_BUFFER_SIZE
  /\ cur = 0
  /\ pos = 0
  /\ pinPos = NoPin
  /\ thrown = FALSE
  /\ zeroReq = FALSE
  /\ pinTrack = NoPin
  /\ pattern = <<>>
  /\ HandlerIdle
  /\ DriverIdle
  /\ JsonIdle
  /\ waitForData \in BOOLEAN
  /\ call = NoCall
  /\ ret = "none"
  /\ slept = FALSE
  /\ run = 0

NextStream ==
  \/ StreamCall
  \/ StreamRetry
  \/ FileAppend
  \/ StreamReadFunc
  \/ StreamSeek
  \/ StreamSetPin
  \/ StreamClearPin

\* The program has one thread: read() wakes up from each sleep(1) and reads
\* again.
SpecStream ==
  /\ InitStream
  /\ [][NextStream]_vars
  /\ WF_vars(StreamRetry)

\* ---- next and peek on a file that is tailed or not, after any seek
NextTail ==
  \/ StreamCall
  \/ StreamRetry
  \/ FileAppend
  \/ StreamSeek

SpecTail ==
  /\ InitStream
  /\ [][NextTail]_vars
  /\ WF_vars(StreamRetry)

\* ---- scanTo on a stream that is not tailed, called in any state that next,
\* peek and seek lead to
InitScan == InitStream /\ ~waitForData

NextScan ==
  \/ StreamCall
  \/ StreamSeek
  \/ StreamScanTo
  \/ ScanRead
  \/ ScanFound
  \/ ScanMiss

\* The program has one thread: a scanTo in progress goes on.
SpecScan ==
  /\ InitScan
  /\ [][NextScan]_vars
  /\ WF_vars(ScanIteration)

\* ------------------------------------------- step-by-step source: properties
\* max(MIN_HIST_SIZE, pos - pin), MIN_HIST_SIZE with no pin or a pin ahead
Window ==
  IF pinPos = NoPin \/ pinPos > pos THEN MIN_HIST_SIZE
  ELSE Max(MIN_HIST_SIZE, pos - pinPos)

\* read() moved the buffered bytes
Compacts(r) == r.cur # cur

\* C16: the guaranteed history window.  A read() that compacts the buffer
\* keeps exactly max(MIN_HIST_SIZE, pos - pin) bytes before the cursor, the
\* ones that were there, and no read() discards a byte at or after the
\* cursor; between two calls, a seek back by d bytes, 0 < d <=
\* min(MIN_HIST_SIZE, bytes consumed by next and readFunc since the last
\* seek), is served from the buffer.
C16_HistoryWindow ==
  /\ \A ch \in OneChunk :
       LET r == read(Src, ch)
       IN /\ Compacts(r) => r.cur = Window
          /\ r.cur <= cur
          /\ SubSeq(r.buf, 1, r.cur) = SubSeq(buf, cur - r.cur + 1, cur)
          /\ SubSeq(r.buf, r.cur + 1, r.cur + (Len(buf) - cur)) = SubSeq(buf, cur + 1, Len(buf))
  /\ (call = NoCall /\ Usable) =>
       \A d \in 1..Min(MIN_HIST_SIZE, run), ch \in OneChunk :
         LET r == seek(Src, pos - d, ch)
         IN /\ r.io = 0 /\ ~r.thrown
            /\ r.pos = pos - d /\ r.cur = cur - d
            /\ r.buf = buf

\* C16's case: bytes were consumed since the last seek, the pin lies more
\* than MIN_HIST_SIZE behind, the buffered bytes are used up so that the next
\* call reads, that read compacts down to the pinned window, and the seek
\* back is served from the buffer.
C16_Witness ==
  /\ call = NoCall /\ Usable
  /\ run = MIN_HIST_SIZE
  /\ pinPos # NoPin /\ pos - pinPos > MIN_HIST_SIZE
  /\ cur = Len(buf)
  /\ \E ch \in OneChunk :
       LET r == read(Src, ch)
       IN Compacts(r) /\ r.cur = pos - pinPos /\ r.ok
  /\ \A ch \in OneChunk : seek(Src, pos - MIN_HIST_SIZE, ch).io = 0

\* a next or a peek is asleep in read()
Asleep == call.op \in {"next", "peek"}

\* a step in which a next or a peek returns
CallReturns == (StreamCall \/ StreamRetry) /\ call' = NoCall

\* the underlying read has nothing to give and no byte is buffered
NothingToRead == cur = Len(buf) /\ fpos >= Len(file)

\* C17: wait-for-data.  With waitForData set, next and peek never report
\* EOF: a read of zero bytes leaves the call asleep in read(), the call stays
\* there while the stream has nothing to give, it returns once the stream
\* has a byte, and what it returns is the byte of the stream at pos.  With
\* waitForData unset, a next or peek that has no buffered byte and reads zero
\* bytes returns EOF and leaves pos unchanged.
C17_WaitForData ==
  /\ [](waitForData => ret # EOF)
  /\ [][(waitForData /\ call = NoCall /\ NothingToRead /\ StreamCall) => Asleep']_vars
  /\ [][(Asleep /\ NothingToRead) => call' = call]_vars
  /\ [][(waitForData /\ CallReturns) =>
          /\ pos < Len(file)
          /\ ret' = file[pos + 1]
          /\ pos' \in {pos, pos + 1}]_vars
  /\ (Asleep /\ fpos < Len(file)) ~> (call = NoCall)
  /\ [][(~waitForData /\ NothingToRead /\ StreamCall) =>
          (call' = NoCall /\ ret' = EOF /\ pos' = pos)]_vars

\* C17's case: a call that slept in read() has returned a byte.
C17_Witness ==
  /\ waitForData
  /\ call = NoCall
  /\ slept
  /\ ret \in Bytes

\* an iteration of scanTo's outer loop that finds no match advances pos
MissAdvances == [][ScanMiss => pos' >= pos + 1]_vars

\* after a read of the inner loop that got bytes, more bytes are buffered at
\* and after the cursor than before it
RetryHasMore == [][(ScanRead /\ InScanTo') => Len(buf') - cur' > Len(buf) - cur]_vars

\* C18 (as claimed): scanTo makes progress and terminates.  On a stream that
\* is not tailed, whatever non-zero numbers of bytes the underlying reads
\* return, every iteration of the outer loop that finds no match advances
\* pos by at least one byte, every retry of the inner loop has strictly more
\* buffered bytes to search, and every call of scanTo ends by returning
\* (true or false).
C18_ScanToProgress ==
  /\ MissAdvances
  /\ RetryHasMore
  /\ [](ret # "threw")
  /\ InScanTo ~> (call = NoCall)

\* the side of C18 that holds: progress in both loops, and every call of
\* scanTo ends, by returning or by throwing
ScanToTerminates ==
  /\ MissAdvances
  /\ RetryHasMore
  /\ InScanTo ~> (call = NoCall)

\* ------------------------------------------------ drivers: further properties
\* the records that begin in the interval doBisect narrowed down to
Candidates == {i \in 1..Len(recs) : bstart <= StartOf(recs, i) /\ StartOf(recs, i) <= bend}

\* doBisect ran its linear phase, and that grep returned
LinearPhaseDone ==
  /\ pc = "done"
  /\ opts.bisect
  /\ opts.scanSuffixAmount # {}
  /\ diag = "none"

\* C21: the suffix budget covers the candidate region.  When doBisect has
\* entered its linear phase (end - start <= SCAN_THRESHOLD) and the grep from
\* the resynchronised position with scan_suffix = SUFFIX_AMOUNT has returned,
\* every record that begins in [start, end] was examined, also when no
\* record matched: the suffix budget did not stop the scan before them.
C21_SuffixCoversRegion ==
  LinearPhaseDone =>
    /\ bend - bstart <= SCAN_THRESHOLD
    /\ StartOf(recs, firstRec) <= bstart
    /\ Candidates \subseteq Read

\* C21's case: the linear phase began before a start that bisection had
\* moved into the file, several records begin in the interval, none of the
\* records matched, and all of the candidates were examined.
C21_Witness ==
  /\ LinearPhaseDone
  /\ bstart > 0
  /\ StartOf(recs, firstRec) < bstart
  /\ Cardinality(Candidates) >= 2
  /\ total = 0
  /\ Candidates \subseteq Read

\* ------------------------------------------------ handler: further properties
\* C22: key/value position tracking.  At every callback of a well-formed
\* record the context stack is not empty, it has one marker per open
\* container on top of the one of the record (nesting depth plus one), each
\* marker has the kind of its container and has counted the elements of it
\* that are complete (a scalar, a string, a dict-ref, a nested object or
\* array count as one), and isKey() is true exactly when the element being
\* delivered is at an even index directly inside an object.
C22_KeyPositionTracking ==
  InRecord =>
    /\ context_ # <<>>
    /\ Len(context_) = Len(tree)
    /\ \A d \in 1..Len(tree) :
         context_[d].context = tree[d].kind /\ context_[d].counter = tree[d].n
    /\ isKey(Handler) <=> AtKey

\* C22's case: in an object, after a key and a nested container of two or
\* more elements that is complete, the handler is at a key again.
C22_Witness ==
  /\ phase = "value"
  /\ Len(tree) = 2
  /\ top.kind = "OBJECT"
  /\ top.n = 2
  /\ nev >= 4
  /\ isKey(Handler)

\* ------------------------------------------------ linear grep: further properties
InGrepLoop == pc = "reallyDoGrep" \/ (pc = "done" /\ parsed # <<>>)

\* the retained positions are the starts of consecutive records, the newest
\* of them the record parsed last
RecentConsecutive ==
  /\ \A k \in 1..Len(posBuffer) : posBuffer[k] = StartOf(recs, RecAt(posBuffer[k]))
  /\ \A k \in 1..(Len(posBuffer) - 1) : RecAt(posBuffer[k + 1]) = RecAt(posBuffer[k]) + 1
  /\ posBuffer # <<>> => RecAt(ReplayFromBack(posBuffer)) = parsed[Len(parsed)].rec

\* C23: bounded position ring. Between the iterations of reallyDoGrep, for
\* every Pattern (with count set or not), posBuffer holds at most
\* beforeContext + 1 positions, and they are the start positions of the most
\* recent consecutive records.
C23_BoundedPositionRing ==
  InGrepLoop =>
    /\ Len(posBuffer) <= opts.beforeContext + 1
    /\ RecentConsecutive

\* the same without count (the erase of the oldest position is executed)
PositionRingWithoutCount ==
  (InGrepLoop /\ ~opts.count) =>
    /\ Len(posBuffer) <= opts.beforeContext + 1
    /\ RecentConsecutive

\* ------------------------------------------------ byte source: the buffer as a view
\* buf_ <= cur_ <= limit_ <= buf_ + bufSize_, the buffered bytes are the
\* bytes of the stream from offset pos() - (cur_ - buf_) on, and the
\* descriptor stands at the end of the buffered bytes
View(s) ==
  /\ 0 <= s.cur /\ s.cur <= Len(s.buf) /\ Len(s.buf) <= s.bufSize
  /\ s.pos >= s.cur
  /\ s.buf = SubSeq(file, s.pos - s.cur + 1, s.pos - s.cur + Len(s.buf))
  /\ s.fpos = s.pos - s.cur + Len(s.buf)

\* the bytes of the stream from pos() on, at most n of them
Ahead(n) == SubSeq(file, pos + 1, Min(pos + n, Len(file)))

NextDelivers(r) ==
  /\ View(r) /\ ~r.zeroReq
  /\ IF pos < Len(file)
       THEN r.ret = file[pos + 1] /\ r.pos = pos + 1
       ELSE r.ret = EOF /\ r.pos = pos

PeekDelivers(r) ==
  /\ View(r) /\ ~r.zeroReq
  /\ r.pos = pos
  /\ r.ret = IF pos < Len(file) THEN file[pos + 1] ELSE EOF

ReadFuncDelivers(r, len) ==
  /\ View(r) /\ ~r.zeroReq
  /\ \A k \in 1..Len(r.frags) : r.frags[k] # <<>>
  /\ Concat(r.frags) = Ahead(len)
  /\ r.pos = pos + Len(Ahead(len))
  /\ r.thrown <=> Len(Ahead(len)) < len

\* C24: the buffered source is a faithful view of the underlying stream. In
\* every state reached by next, peek, readFunc, skip, seek, setPin, clearPin
\* and scanTo, with any non-zero chunk sizes, the cursor lies within the
\* buffered bytes and these within the buffer, the buffered bytes are the
\* stream's bytes around pos(); no call asks the underlying read for zero
\* bytes; next and peek return the stream's byte at pos() (EOF at its end),
\* next advancing pos by one and peek leaving it; readFunc(n) hands over
\* non-empty fragments whose concatenation is the n bytes from pos() and
\* advances pos by n (at the end of the stream: the bytes that are left,
\* followed by the exception).
C24_FaithfulView ==
  /\ View(Src)
  /\ ~zeroReq
  /\ Usable =>
       /\ \A ch \in OneChunk : NextDelivers(next(Src, ch)) /\ PeekDelivers(peek(Src, ch))
       /\ \A len \in ReadLens, ch \in ChunkPlans : ReadFuncDelivers(readFunc(Src, len, ch), len)

C24_Witness ==
  /\ Usable /\ bufSize > INIT_BUFFER_SIZE /\ cur > 0 /\ pinPos # NoPin
  /\ \E ch \in ChunkPlans :
       LET r == readFunc(Src, 2, ch) IN ~r.thrown /\ Len(r.frags) = 2 /\ r.bufSize = bufSize

\* ------------------------------------------------ bisect: the narrowing loop
\* at the head of the loop of doBisect, with an interval too long for the
\* linear phase
AtProbe == pc = "doBisect" /\ bend - bstart > SCAN_THRESHOLD

\* C25: bisect terminates by narrowing. An iteration of the loop of doBisect
\* that does not enter the linear phase and parses the record it probes
\* strictly decreases end - start, for records of any size.
C25_BisectNarrows ==
  AtProbe =>
    \A sor \in seekSync(Probe) :
      ~CutShort(RecAt(sor)) => Narrowed(sor)[2] - Narrowed(sor)[1] < bend - bstart

\* the same for probes that find a record before end
NarrowsBelowEnd ==
  AtProbe =>
    \A sor \in seekSync(Probe) :
      (~CutShort(RecAt(sor)) /\ sor < bend) =>
        Narrowed(sor)[2] - Narrowed(sor)[1] < bend - bstart

\* ------------------------------------------------ linear grep: the output
\* C26: no duplicate output. For any before_context, after_context and
\* placement of the matching records, reallyDoGrep hands each record of the
\* stream to the output handler at most once, and the records handed over
\* appear in stream order.
C26_NoDuplicateOutput ==
  \A a, b \in 1..Len(out) : a < b => out[a] < out[b]

\* the same in stream order, a record possibly handed over again
OutputInStreamOrder ==
  \A a, b \in 1..Len(out) : a < b => out[a] <= out[b]

\* the same when no context is asked for on one of the two sides
NoDuplicateOneSided ==
  (opts.beforeContext = 0 \/ opts.afterContext = 0) => C26_NoDuplicateOutput

\* ------------------------------------------------ json2au: the encode loop
MaxDocs == 2         \* most JSON documents in the input
MaxMembers == 2      \* most elements of an object or array
MaxNest == 2         \* deepest nesting of objects and arrays in a document

\* the names JsonSaxHandler::Key compares with
Name_estdEventTime == <<"e", "s", "t", "d", "E", "v", "e", "n", "t", "T", "i", "m", "e">>
Name_logTime == <<"l", "o", "g", "T", "i", "m", "e">>
Name_execId == <<"e", "x", "e", "c", "I", "d">>
Name_px == <<"p", "x">>
Name_key == <<"k", "e", "y">>
Name_signed == <<"s", "i", "g", "n", "e", "d">>
Name_origFfeKey == <<"o", "r", "i", "g", "F", "f", "e", "K", "e", "y">>

InlineNames == {Name_estdEventTime, Name_logTime, Name_execId, Name_px}
ToIntNames == {Name_key, Name_signed, Name_origFfeKey}
ListedNames == InlineNames \cup ToIntNames

\* 0 == strncmp(str, name, length): the first `length` characters of the
\* NUL-terminated strings are equal
strncmp0(str, name) ==
  /\ Len(str) <= Len(name)
  /\ SubSeq(name, 1, Len(str)) = str

\* the member names and string values of the input
JsonKeys == {Name_px, <<"p">>, <<"i", "d">>}
JsonStrings ==
  {<<"a">>,
   TimeText([year |-> 1970, mon |-> 1, mday |-> 1, hour |-> 0, min |-> 0, sec |-> 0,
             mics |-> 123456])}

Event(ev, s) == [ev |-> ev, s |-> s]

EncodeStep == UNCHANGED <<srcVars, obsVars, hVars, pVars, dVars, tVars>>

\* while (res) au.encode(...): a new JsonSaxHandler, then reader.Parse
EncodeBegin ==
  /\ jpc = "loop"
  /\ res
  /\ jpc' = "Parse"
  /\ intern_' = {}
  /\ nesting' = <<>>
  /\ prevEvent' = NoEvent
  /\ UNCHANGED <<jargs, inFName, outFName, maxEntries, jstatus, jin, stored, jout,
                 input, res, entriesProcessed, lastWrite, encoded>>
  /\ EncodeStep

\* the loop ends on a ParseResult that is an error; at the end of the input
\* it is kParseErrorDocumentEmpty and json2au returns 0
EncodeLoopEnd ==
  /\ jpc = "loop"
  /\ ~res
  /\ jpc' = "exit"
  /\ jstatus' = "0"
  /\ UNCHANGED <<jargs, inFName, outFName, maxEntries, jin, stored, jout, eVars>>
  /\ EncodeStep

\* Parse at the end of the input
ParseEmpty ==
  /\ jpc = "Parse"
  /\ prevEvent = NoEvent
  /\ input = 0
  /\ res' = FALSE
  /\ jpc' = "parsed"
  /\ UNCHANGED <<jargs, inFName, outFName, maxEntries, jstatus, jin, stored, jout,
                 input, entriesProcessed, intern_, nesting, prevEvent, lastWrite, encoded>>
  /\ EncodeStep

\* the reader is inside a document and may deliver a value: at the top, as
\* the value of a member, or as an element of an array
InObject == nesting # <<>> /\ nesting[Len(nesting)].kind = "object"
InArray == nesting # <<>> /\ nesting[Len(nesting)].kind = "array"
ValueDue ==
  /\ jpc = "Parse"
  /\ \/ nesting = <<>> /\ prevEvent = NoEvent /\ input > 0
     \/ InObject /\ prevEvent.ev = "Key"
     \/ InArray /\ nesting[Len(nesting)].n < MaxMembers

\* the reader's position after a value was delivered: the document is
\* complete when no container is open
AfterValue(ns) ==
  /\ nesting' = IF ns = <<>> THEN ns ELSE [ns EXCEPT ![Len(ns)].n = @ + 1]
  /\ IF ns = <<>>
       THEN jpc' = "parsed" /\ input' = input - 1 /\ encoded' = encoded + 1
       ELSE UNCHANGED <<jpc, input, encoded>>
  /\ res' = TRUE

\* JsonSaxHandler::Key
Key(str) ==
  IF \E name \in InlineNames : strncmp0(str, name) THEN {FALSE}
  ELSE IF \E name \in ToIntNames : strncmp0(str, name) THEN {FALSE}
  ELSE intern_

SaxKey ==
  /\ jpc = "Parse"
  /\ InObject /\ prevEvent.ev # "Key" /\ nesting[Len(nesting)].n < MaxMembers
  /\ \E str \in JsonKeys :
       /\ intern_' = Key(str)
       /\ prevEvent' = Event("Key", str)
  /\ UNCHANGED <<jargs, jpc, inFName, outFName, maxEntries, jstatus, jin, stored, jout,
                 input, res, entriesProcessed, nesting, lastWrite, encoded>>
  /\ EncodeStep

\* JsonSaxHandler::String: a string that tryTime converts is written as a
\* time and leaves intern_ alone
SaxString ==
  /\ ValueDue
  /\ \E str \in JsonStrings : \E v \in String(str) :
       /\ IF v.kind = "time"
            THEN UNCHANGED <<intern_, lastWrite>>
            ELSE /\ lastWrite' = [s |-> str, intern |-> intern_, after |-> prevEvent]
                 /\ intern_' = {}
       /\ prevEvent' = Event("String", str)
  /\ AfterValue(nesting)
  /\ UNCHANGED <<jargs, inFName, outFName, maxEntries, jstatus, jin, stored, jout,
                 entriesProcessed>>
  /\ EncodeStep

\* Null, Bool, Int, Uint, Int64, Uint64, Double
SaxNumber ==
  /\ ValueDue
  /\ prevEvent' = Event("Number", <<>>)
  /\ AfterValue(nesting)
  /\ UNCHANGED <<jargs, inFName, outFName, maxEntries, jstatus, jin, stored, jout,
                 entriesProcessed, intern_, lastWrite>>
  /\ EncodeStep

\* StartObject, StartArray
SaxStart ==
  /\ ValueDue
  /\ Len(nesting) < MaxNest
  /\ \E kind \in {"object", "array"} :
       /\ nesting' = Append(nesting, [kind |-> kind, n |-> 0])
       /\ prevEvent' = Event("Start", <<>>)
  /\ UNCHANGED <<jargs, jpc, inFName, outFName, maxEntries, jstatus, jin, stored, jout,
                 input, res, entriesProcessed, intern_, lastWrite, encoded>>
  /\ EncodeStep

\* EndObject, EndArray
SaxEnd ==
  /\ jpc = "Parse"
  /\ nesting # <<>> /\ prevEvent.ev # "Key"
  /\ prevEvent' = Event("End", <<>>)
  /\ AfterValue(SubSeq(nesting, 1, Len(nesting) - 1))
  /\ UNCHANGED <<jargs, inFName, outFName, maxEntries, jstatus, jin, stored, jout,
                 entriesProcessed, intern_, lastWrite>>
  /\ EncodeStep

\* if (entriesProcessed > maxEntries) break;
PastMax(n) == \E lim \in maxEntries : n > lim

\* encode has returned: entriesProcessed++ and the test of maxEntries
EncodeEnd ==
  /\ jpc = "parsed"
  /\ entriesProcessed' = entriesProcessed + 1
  /\ IF PastMax(entriesProcessed + 1)
       THEN jpc' = "exit" /\ jstatus' = "0"
       ELSE jpc' = "loop" /\ jstatus' = jstatus
  /\ UNCHANGED <<jargs, inFName, outFName, maxEntries, jin, stored, jout,
                 input, res, intern_, nesting, prevEvent, lastWrite, encoded>>
  /\ EncodeStep

\* json2au at its encode loop, with and without max_records
InitEncode ==
  /\ SourceIdle
  /\ StreamIdle
  /\ HandlerIdle
  /\ pattern = NoPattern
  /\ DriverIdle
  /\ jargs = <<>>
  /\ jpc = "loop"
  /\ inFName = "in.json"
  /\ outFName = "out.au"
  /\ maxEntries \in {{}} \cup {{n} : n \in 0..MaxDocs}
  /\ jstatus = "running"
  /\ jin = <<>>
  /\ stored = NoValue
  /\ jout = <<>>
  /\ input \in 0..MaxDocs
  /\ res = TRUE
  /\ entriesProcessed = 0
  /\ intern_ = {}
  /\ nesting = <<>>
  /\ prevEvent = NoEvent
  /\ lastWrite = NoWrite
  /\ encoded = 0

NextEncode ==
  \/ EncodeBegin
  \/ EncodeLoopEnd
  \/ ParseEmpty
  \/ SaxKey
  \/ SaxString
  \/ SaxNumber
  \/ SaxStart
  \/ SaxEnd
  \/ EncodeEnd

SpecEncode == InitEncode /\ [][NextEncode]_vars

\* ---------------------------------------------------- json2au: the encode loop, properties
\* C27: scope of the intern hint. A string that String writes with the
\* inline hint (intern = false) is the value of a member whose key is exactly
\* one of the listed names: the event before it is that Key.
C27_InternHintScope ==
  lastWrite.intern = {FALSE} =>
    /\ lastWrite.after.ev = "Key"
    /\ lastWrite.after.s \in ListedNames

\* the value of a member with a listed name, when a string, is written inline
ListedValueInline ==
  (lastWrite.after.ev = "Key" /\ lastWrite.after.s \in ListedNames) =>
    lastWrite.intern = {FALSE}

\* C28: max_records bound. With max_records = N the encode loop hands at
\* most N documents to the encoder, for every N >= 0 and every input.
C28_MaxRecordsBound ==
  \A lim \in maxEntries : encoded <= lim

\* the bound the loop keeps
AtMostOneMore ==
  \A lim \in maxEntries : encoded <= lim + 1

\* ------------------------------------------------ stats: further properties
\* the stream holds no int/uint value
NoIntegers == \A i \in 1..Len(recs) : recs[i].type \notin {"int", "uint"}

\* C29: stats completes on streams without integers. When stats has ended
\* on a whole stream that holds no int/uint value (the empty stream among
\* them), the whole report was printed without a fault, with the counts of
\* that stream.
C29_StatsWithoutIntegers ==
  (pc = "done" /\ NoIntegers /\ ~truncated) =>
    /\ status # "fault"
    /\ printed = <<counters.numRecords, counters.numValues, counters.doubles, 0>>

\* a whole stream with an int/uint value is reported without a fault
StatsWithIntegers ==
  (pc = "done" /\ ~NoIntegers /\ ~truncated) => status = "0"

====
